---- MODULE Spec2Model ----
(***************************************************************************)
(* A model of parse_midi (the MidiParser library of the piano repository): *)
(* the header decoder, the per-track event decoder with its channel        *)
(* heuristic, the sort by tick and the translation of ticks to deltas;     *)
(* of handle_midi, the earlier variant of the parser (HandleSpec); and of  *)
(* the playback loop of main that consumes the list (MainSpec).            *)
(*                                                                         *)
(* Memory is a flat byte array.  The caller's buffer occupies addresses    *)
(* 0..size-1; the code never looks at size, so a read may run past it.     *)
(* What lies past the buffer is not known: each byte there is chosen when  *)
(* it is first needed (ReadBeyond), at most MaxOob bytes are mapped, and   *)
(* a step that touches an address past the buffer may also end the         *)
(* process (Crash).                                                        *)
(*                                                                         *)
(* Fields whose name starts with g_ and the variables g_* are history      *)
(* variables: the program does not hold them, they only record what the    *)
(* decoder saw so that properties can speak about it.                      *)
(*                                                                         *)
(* A double is modelled by the exact fraction it is the nearest double to: *)
(* [num, den] stands for static_cast<double>(num) / static_cast<double>(den)*)
(* Two such values are compared by cross-multiplication.                   *)
(*                                                                         *)
(* The unsigned 64-bit counters stay far below 2^64 for every input the    *)
(* bounds admit, so no wrap-around is reachable here.                      *)
(***************************************************************************)
EXTENDS Integers, Sequences, FiniteSets, TLC

VARIABLES
    mem,               \* the bytes at addresses 0.. (buffer, then what was read past it)
    size,              \* the size argument: the length of the caller's buffer
    pc,                \* where parse_midi is
    position,          \* const uint8_t *position, as an address
    midi_header,       \* midi_header_t: chunk_length, format, ntracks, tickdiv
    track,             \* the for loop's counter
    current_time,      \* uint64_t current_time
    piano_chanel,      \* uint8_t piano_chanel
    has_piano_chanel,  \* bool has_piano_chanel
    end_,              \* const uint8_t *end of the current track
    last_track_event,  \* uint8_t last_track_event (the running status)
    events,            \* std::vector<event_t> &events
    status,            \* the returned status_t, once pc = "done"
    g_oob,             \* history: some step has read past the buffer
    g_nev,             \* history: events decoded so far in the current track
    g_entered,         \* history: the tracks whose MTrk header was read
    g_last,            \* history: what the last decode step saw
    main_tempo,        \* double tempo of main (src/MidiParser/test/test.cc)
    gKeys,             \* char gKeys[128]
    sleep_time,        \* double sleep_time of the last turn of the playback loop
    event_it           \* the iterator of for (auto event : events): events passed

vars == <<mem, size, pc, position, midi_header, track, current_time, piano_chanel,
          has_piano_chanel, end_, last_track_event, events, status,
          g_oob, g_nev, g_entered, g_last, main_tempo, gKeys, sleep_time, event_it>>

\* the variables of the playback loop of main
playvars == <<main_tempo, gKeys, sleep_time, event_it>>

-----------------------------------------------------------------------------
(* Bounds of the model *)

\* the most events all the tracks of an enumerated file hold together
MaxEvents == 2
\* the most bytes mapped past the end of the buffer
MaxOob == 2

-----------------------------------------------------------------------------
(* Constants of the program *)

STATUS_SUCCESS == 0
STATUS_MIDI_HEADER_LENGTH_ERROR == 1
STATUS_MIDI_HEADER_FORMAT_ERROR == 2
STATUS_MIDI_HEADER_NTRACKS_ERROR == 3
STATUS_MIDI_EVENT_ERROR == 4

EVENT_NOTE_ON == 1
EVENT_NOTE_OFF == 2
EVENT_TEMPO_SET == 3

MIDI_EVENT_NOTE_OFF == 128
MIDI_EVENT_NOTE_ON == 144
MIDI_EVENT_NOTE_AFTERTOUCH == 160
MIDI_EVENT_CONTROLLER == 176
MIDI_EVENT_PROGRAM_CHANGE == 192
MIDI_EVENT_CHANEL_AFTERTOUCH == 208
MIDI_EVENT_PITCH_BEND == 224
META_EVENT_TEMPO == 81
kMetaEventPrefix == 255
kMetaSysExPrefixes == <<240, 247>>

\* piano_chanel's initial value 0xff: no channel yet
NoChanel == 255

\* "MThd" and "MTrk"
TagMThd == <<77, 84, 104, 100>>
TagMTrk == <<77, 84, 114, 107>>

-----------------------------------------------------------------------------
(* Bit operations on bytes, as the code uses them *)

\* b & 0x80
HighBit(b) == (b \div 128) % 2
\* b & 0x7f
Low7(b) == b % 128
\* b & 0xf0
HighNibble(b) == (b \div 16) * 16
\* b & 0x0f
LowNibble(b) == b % 16
\* x & 0x0080
Bit7(x) == (x \div 128) % 2

Max(a, b) == IF a >= b THEN a ELSE b

-----------------------------------------------------------------------------
(* The cursor.  A reader r is the address pos a sequence of reads has      *)
(* reached, ok (every byte asked for so far was mapped) and top (one past  *)
(* the highest address read so far).                                       *)

Reader(p) == [pos |-> p, ok |-> TRUE, top |-> 0]

\* the n bytes at r.pos are mapped
Avail(r, n) == r.ok /\ r.pos >= 0 /\ r.pos + n <= Len(mem)

\* pos[i]
ByteAt(r, i) == IF Avail(r, i + 1) THEN mem[r.pos + i + 1] ELSE 0

\* the reader after n bytes at r.pos were read
Take(r, n) == [pos |-> r.pos + n, ok |-> Avail(r, n), top |-> Max(r.top, r.pos + n)]

\* pos += n, pos--: pointer arithmetic, nothing is read
Skip(r, n) == [r EXCEPT !.pos = r.pos + n]

\* the big-endian value of the n bytes at r.pos
RECURSIVE BEValue(_, _, _)
BEValue(r, n, acc) ==
    IF n = 0 THEN acc
    ELSE BEValue(Skip(r, 1), n - 1, acc * 256 + ByteAt(r, 0))

\* read_be<N_BYTES>(pos): the value and the reader after it
read_be(r, n) == [val |-> BEValue(r, n, 0), r |-> Take(r, n)]

\* read_var_len(pos) of parse_midi: 7 bits per byte while bit 0x80 is set
RECURSIVE VarLenLoop(_, _)
VarLenLoop(r, result) ==
    IF ~Avail(r, 1) THEN [val |-> result, r |-> Take(r, 1)]
    ELSE LET byte == ByteAt(r, 0)
             res  == result * 128 + Low7(byte)
         IN  IF HighBit(byte) # 0 THEN VarLenLoop(Take(r, 1), res)
             ELSE [val |-> res, r |-> Take(r, 1)]

read_var_len(r) == VarLenLoop(r, 0)

\* the do-while of read_var_len in src/midi/midi.cc: result = (result << 7) | byte,
\* the byte taken whole.  The low 7 bits of result << 7 are clear, and its bit
\* 0x80 is the lowest bit of result.
RECURSIVE piano_midi_VarLenLoop(_, _)
piano_midi_VarLenLoop(r, result) ==
    IF ~Avail(r, 1) THEN [val |-> result, r |-> Take(r, 1)]
    ELSE LET byte == ByteAt(r, 0)
             res  == result * 128 + Low7(byte)
                     + (IF HighBit(byte) # 0 /\ result % 2 = 0 THEN 128 ELSE 0)
         IN  IF HighBit(byte) # 0 THEN piano_midi_VarLenLoop(Take(r, 1), res)
             ELSE [val |-> res, r |-> Take(r, 1)]

\* read_var_len(pos) of handle_midi
piano_midi_read_var_len(r) == piano_midi_VarLenLoop(r, 0)

\* std::string(pos, 4) == tag
TagIs(r, tag) == Avail(r, 4) /\ \A i \in 0..3 : ByteAt(r, i) = tag[i + 1]

\* SkipToTag taking the chunk at pos for the one looked for, whatever its tag
SkipToTag_AnyTag(r, tag) ==
    IF ~Avail(r, 4) THEN Take(r, 4)
    ELSE [r EXCEPT !.top = Max(r.top, r.pos + 4)]

\* the while loop of read_midi_header and read_track_header: skip chunks
\* (tag, length, payload) until the tag at pos is the one looked for
RECURSIVE SkipToTag(_, _)
SkipToTag(r, tag) ==
    IF ~Avail(r, 4) THEN Take(r, 4)
    ELSE IF TagIs(r, tag) THEN [r EXCEPT !.top = Max(r.top, r.pos + 4)]
    ELSE LET len == read_be(Take(r, 4), 4)
         IN  IF ~len.r.ok THEN len.r
             ELSE SkipToTag(Skip(len.r, len.val), tag)

-----------------------------------------------------------------------------
(* read_midi_header *)

NoHeader == [chunk_length |-> 0, format |-> 0, ntracks |-> 0, tickdiv |-> 0]

\* the four fields after the tag at r0 - 4: each is read only if the check
\* on the one before it passed (HeaderResult)
HeaderFields(r0) ==
    [length  |-> read_be(r0, 4),
     format  |-> read_be(Skip(r0, 4), 2),
     ntracks |-> read_be(Skip(r0, 6), 2),
     tickdiv |-> read_be(Skip(r0, 8), 2)]

\* HeaderResult without the check of the chunk length
HeaderResult_NoLengthCheck(f) ==
    IF ~f.length.r.ok
    THEN [r |-> f.length.r, status |-> STATUS_SUCCESS, header |-> NoHeader]
    ELSE IF f.format.val >= 3 \/ ~f.format.r.ok
    THEN [r |-> f.format.r, status |-> STATUS_MIDI_HEADER_FORMAT_ERROR,
          header |-> [NoHeader EXCEPT !.chunk_length = f.length.val,
                                      !.format = f.format.val]]
    ELSE IF (f.format.val = 0 /\ f.ntracks.val # 1) \/ ~f.ntracks.r.ok
    THEN [r |-> f.ntracks.r, status |-> STATUS_MIDI_HEADER_NTRACKS_ERROR,
          header |-> [NoHeader EXCEPT !.chunk_length = f.length.val,
                                      !.format = f.format.val,
                                      !.ntracks = f.ntracks.val]]
    ELSE [r |-> f.tickdiv.r, status |-> STATUS_SUCCESS,
          header |-> [chunk_length |-> f.length.val, format |-> f.format.val,
                      ntracks |-> f.ntracks.val, tickdiv |-> f.tickdiv.val]]

\* HeaderResult without the check of the track count of format 0
HeaderResult_NoNTracksCheck(f) ==
    IF ~f.length.r.ok
    THEN [r |-> f.length.r, status |-> STATUS_SUCCESS, header |-> NoHeader]
    ELSE IF f.length.val # 6
    THEN [r |-> f.length.r, status |-> STATUS_MIDI_HEADER_LENGTH_ERROR,
          header |-> [NoHeader EXCEPT !.chunk_length = f.length.val]]
    ELSE IF f.format.val >= 3 \/ ~f.format.r.ok
    THEN [r |-> f.format.r, status |-> STATUS_MIDI_HEADER_FORMAT_ERROR,
          header |-> [NoHeader EXCEPT !.chunk_length = f.length.val,
                                      !.format = f.format.val]]
    ELSE [r |-> f.tickdiv.r, status |-> STATUS_SUCCESS,
          header |-> [chunk_length |-> f.length.val, format |-> f.format.val,
                      ntracks |-> f.ntracks.val, tickdiv |-> f.tickdiv.val]]

\* the checks of read_midi_header in their order: the reader where it
\* returns, the status it returns and the header it has filled by then
HeaderResult(f) ==
    IF ~f.length.r.ok
    THEN [r |-> f.length.r, status |-> STATUS_SUCCESS, header |-> NoHeader]
    ELSE IF f.length.val # 6
    THEN [r |-> f.length.r, status |-> STATUS_MIDI_HEADER_LENGTH_ERROR,
          header |-> [NoHeader EXCEPT !.chunk_length = f.length.val]]
    ELSE IF f.format.val >= 3 \/ ~f.format.r.ok
    THEN [r |-> f.format.r, status |-> STATUS_MIDI_HEADER_FORMAT_ERROR,
          header |-> [NoHeader EXCEPT !.chunk_length = f.length.val,
                                      !.format = f.format.val]]
    ELSE IF (f.format.val = 0 /\ f.ntracks.val # 1) \/ ~f.ntracks.r.ok
    THEN [r |-> f.ntracks.r, status |-> STATUS_MIDI_HEADER_NTRACKS_ERROR,
          header |-> [NoHeader EXCEPT !.chunk_length = f.length.val,
                                      !.format = f.format.val,
                                      !.ntracks = f.ntracks.val]]
    ELSE [r |-> f.tickdiv.r, status |-> STATUS_SUCCESS,
          header |-> [chunk_length |-> f.length.val, format |-> f.format.val,
                      ntracks |-> f.ntracks.val, tickdiv |-> f.tickdiv.val]]

read_midi_header(p) ==
    HeaderResult(HeaderFields(Skip(SkipToTag(Reader(p), TagMThd), 4)))

-----------------------------------------------------------------------------
(* read_track_header: the reader after it and the declared chunk length *)

read_track_header(p) ==
    LET length == read_be(Skip(SkipToTag(Reader(p), TagMTrk), 4), 4)
    IN  [r |-> length.r, chunk_length |-> length.val]

\* FormatPolicy with case 1 never taking its continue: every track is read
FormatPolicy_NoSkip(format, ct, pch, has) ==
    CASE format = 0 ->
            [ct |-> ct, pch |-> pch, has |-> has, skip |-> FALSE, err |-> FALSE]
      [] format = 1 ->
            [ct |-> 0, pch |-> pch, has |-> has, skip |-> FALSE, err |-> FALSE]
      [] format = 2 ->
            [ct |-> ct, pch |-> NoChanel, has |-> FALSE, skip |-> FALSE, err |-> FALSE]
      [] OTHER ->
            [ct |-> ct, pch |-> pch, has |-> has, skip |-> FALSE, err |-> TRUE]

\* FormatPolicy with case 2 also setting current_time to 0
FormatPolicy_ResetTicks(format, ct, pch, has) ==
    CASE format = 0 ->
            [ct |-> ct, pch |-> pch, has |-> has, skip |-> FALSE, err |-> FALSE]
      [] format = 1 ->
            [ct |-> 0, pch |-> pch, has |-> has, skip |-> has, err |-> FALSE]
      [] format = 2 ->
            [ct |-> 0, pch |-> NoChanel, has |-> FALSE, skip |-> FALSE, err |-> FALSE]
      [] OTHER ->
            [ct |-> ct, pch |-> pch, has |-> has, skip |-> FALSE, err |-> TRUE]

-----------------------------------------------------------------------------
(* The per-track switch on midi_header.format at the head of the for loop: *)
(* what it leaves in current_time, piano_chanel and has_piano_chanel,      *)
(* whether it takes the continue of case 1, and whether it returns the     *)
(* format error of the default case.                                       *)

FormatPolicy(format, ct, pch, has) ==
    CASE format = 0 ->
            [ct |-> ct, pch |-> pch, has |-> has, skip |-> FALSE, err |-> FALSE]
      [] format = 1 ->
            [ct |-> 0, pch |-> pch, has |-> has, skip |-> has, err |-> FALSE]
      [] format = 2 ->
            [ct |-> ct, pch |-> NoChanel, has |-> FALSE, skip |-> FALSE, err |-> FALSE]
      [] OTHER ->
            [ct |-> ct, pch |-> pch, has |-> has, skip |-> FALSE, err |-> TRUE]

-----------------------------------------------------------------------------
(* The body of the while (position != end) loop, up to the dispatch        *)

\* HeadWith without the --position of the running-status case
HeadWith_NoRewind(delta, cand, ct, last) ==
    [time        |-> ct + delta,
     track_event |-> IF HighBit(cand.val) = 0 THEN last ELSE cand.val,
     last        |-> IF HighBit(cand.val) = 0 THEN last ELSE cand.val,
     r           |-> cand.r]

\* the running-status decision on the status candidate cand read after the
\* delta time delta
HeadWith(delta, cand, ct, last) ==
    [time        |-> ct + delta,
     track_event |-> IF HighBit(cand.val) = 0 THEN last ELSE cand.val,
     last        |-> IF HighBit(cand.val) = 0 THEN last ELSE cand.val,
     r           |-> IF HighBit(cand.val) = 0 THEN Skip(cand.r, -1) ELSE cand.r]

\* the delta time, the status candidate and the running-status decision
EventHead(p, ct, last) ==
    LET delta == read_var_len(Reader(p))
    IN  HeadWith(delta.val, read_be(delta.r, 1), ct, last)

\* IsPianoProgram with the upper bound off by one
IsPianoProgram_Below7(program) == program >= 0 /\ program < 7

\* IsPianoProgram with program 0 left out
IsPianoProgram_From1(program) == program >= 1 /\ program <= 7

\* the condition of the program-change branch: program >= 0 && program <= 7
IsPianoProgram(program) == program >= 0 /\ program <= 7

\* ProgramChange setting the flag and leaving piano_chanel as it is
ProgramChange_FlagOnly(program, midi_chanel, pch, has) ==
    IF IsPianoProgram(program)
    THEN [pch |-> pch, has |-> TRUE]
    ELSE [pch |-> pch, has |-> has]

\* ProgramChange keeping the first channel found
ProgramChange_FirstWins(program, midi_chanel, pch, has) ==
    IF IsPianoProgram(program) /\ ~has
    THEN [pch |-> midi_chanel, has |-> TRUE]
    ELSE [pch |-> pch, has |-> has]

\* ProgramChange taking the channel of the last piano program, without std::min
ProgramChange_LastWins(program, midi_chanel, pch, has) ==
    IF IsPianoProgram(program)
    THEN [pch |-> midi_chanel, has |-> TRUE]
    ELSE [pch |-> pch, has |-> has]

\* the program-change branch: the new (piano_chanel, has_piano_chanel)
ProgramChange(program, midi_chanel, pch, has) ==
    IF IsPianoProgram(program)
    THEN [pch |-> IF midi_chanel < pch THEN midi_chanel ELSE pch, has |-> TRUE]
    ELSE [pch |-> pch, has |-> has]

\* SkipCondition without the comparison of the channels
SkipCondition_AnyChanel(midi_event, midi_chanel, pch, has) ==
    \/ ~has
    \/ (midi_event # MIDI_EVENT_NOTE_OFF /\ midi_event # MIDI_EVENT_NOTE_ON)

\* the condition of the skipping branch
SkipCondition(midi_event, midi_chanel, pch, has) ==
    \/ ~has
    \/ midi_chanel # pch
    \/ (midi_event # MIDI_EVENT_NOTE_OFF /\ midi_event # MIDI_EVENT_NOTE_ON)

\* SkippedBytes with the default of the switch skipping nothing instead of
\* returning the error
SkippedBytes_DefaultSkips(midi_event) ==
    CASE midi_event = MIDI_EVENT_NOTE_OFF          -> 2
      [] midi_event = MIDI_EVENT_NOTE_ON           -> 2
      [] midi_event = MIDI_EVENT_NOTE_AFTERTOUCH   -> 2
      [] midi_event = MIDI_EVENT_CONTROLLER        -> 2
      [] midi_event = MIDI_EVENT_PROGRAM_CHANGE    -> 1
      [] midi_event = MIDI_EVENT_CHANEL_AFTERTOUCH -> 1
      [] midi_event = MIDI_EVENT_PITCH_BEND        -> 2
      [] OTHER                                     -> 0

\* the switch of the skipping branch: the data bytes skipped, -1 for default
SkippedBytes(midi_event) ==
    CASE midi_event = MIDI_EVENT_NOTE_OFF          -> 2
      [] midi_event = MIDI_EVENT_NOTE_ON           -> 2
      [] midi_event = MIDI_EVENT_NOTE_AFTERTOUCH   -> 2
      [] midi_event = MIDI_EVENT_CONTROLLER        -> 2
      [] midi_event = MIDI_EVENT_PROGRAM_CHANGE    -> 1
      [] midi_event = MIDI_EVENT_CHANEL_AFTERTOUCH -> 1
      [] midi_event = MIDI_EVENT_PITCH_BEND        -> 2
      [] OTHER                                     -> -1

\* NoteKind without the test of the velocity
NoteKind_AsWritten(midi_event, velocity) ==
    IF midi_event = MIDI_EVENT_NOTE_ON THEN EVENT_NOTE_ON ELSE EVENT_NOTE_OFF

\* the event kind a note event is stored with: velocity 0 turns note-on into
\* note-off
NoteKind(midi_event, velocity) ==
    LET ev == IF midi_event = MIDI_EVENT_NOTE_ON /\ velocity = 0
              THEN MIDI_EVENT_NOTE_OFF ELSE midi_event
    IN  IF ev = MIDI_EVENT_NOTE_ON THEN EVENT_NOTE_ON ELSE EVENT_NOTE_OFF

\* event_t(event, note, current_ticks) and event_t(event, tempo, current_ticks),
\* with the history of where the event came from
Event(kind, data, ticks, st, vel) ==
    [event |-> kind, data |-> data, time |-> ticks,
     g_ticks |-> ticks, g_track |-> track, g_seq |-> Len(events) + 1,
     g_status |-> st, g_vel |-> vel]

\* what a loop turn with head h yields before its branch fills it in
Decoded(h) ==
    [kind |-> "none", r |-> h.r, time |-> h.time, last |-> h.last,
     status |-> h.track_event, d1 |-> 0, d2 |-> 0, len |-> 0]

\* MetaBody with the end-of-track (type 0x2f) moving the cursor to the end of
\* the track, which ends the loop
MetaBody_EndOfTrack(h, meta_event, length) ==
    IF meta_event = META_EVENT_TEMPO
    THEN LET tempo == read_be(length.r, 3)
         IN  [Decoded(h) EXCEPT !.kind = "tempo", !.r = tempo.r, !.d1 = meta_event,
                                !.d2 = tempo.val, !.len = length.val]
    ELSE IF meta_event = 47
    THEN [Decoded(h) EXCEPT !.kind = "meta", !.r = [length.r EXCEPT !.pos = end_],
                            !.d1 = meta_event, !.len = length.val]
    ELSE [Decoded(h) EXCEPT !.kind = "meta", !.r = Skip(length.r, length.val),
                            !.d1 = meta_event, !.len = length.val]

\* the meta branch once the type and the length are read
MetaBody(h, meta_event, length) ==
    IF meta_event = META_EVENT_TEMPO
    THEN LET tempo == read_be(length.r, 3)
         IN  [Decoded(h) EXCEPT !.kind = "tempo", !.r = tempo.r, !.d1 = meta_event,
                                !.d2 = tempo.val, !.len = length.val]
    ELSE [Decoded(h) EXCEPT !.kind = "meta", !.r = Skip(length.r, length.val),
                            !.d1 = meta_event, !.len = length.val]

\* the meta branch
DecodeMeta(h) ==
    LET meta_event == read_be(h.r, 1)
    IN  MetaBody(h, meta_event.val, read_var_len(meta_event.r))

\* the branch of the system exclusive events
DecodeSysEx(h) ==
    LET length == read_var_len(h.r)
    IN  [Decoded(h) EXCEPT !.kind = "sysex", !.r = Skip(length.r, length.val),
                           !.len = length.val]

\* the midi events: program change, the skipping branch, the notes
DecodeChannel(h, midi_event, midi_chanel, pch, has) ==
    IF midi_event = MIDI_EVENT_PROGRAM_CHANGE
    THEN LET program == read_be(h.r, 1)
         IN  [Decoded(h) EXCEPT !.kind = "program", !.r = program.r, !.d1 = program.val]
    ELSE IF SkipCondition(midi_event, midi_chanel, pch, has)
    THEN IF SkippedBytes(midi_event) < 0
         THEN [Decoded(h) EXCEPT !.kind = "unknown"]
         ELSE [Decoded(h) EXCEPT !.kind = "skip",
                                 !.r = Skip(h.r, SkippedBytes(midi_event)),
                                 !.len = SkippedBytes(midi_event)]
    ELSE LET note == read_be(h.r, 1)
         IN  [Decoded(h) EXCEPT !.kind = "note", !.r = Take(h.r, 2),
                                !.d1 = note.val, !.d2 = read_be(note.r, 1).val]

\* the dispatch on the status byte of a loop turn with head h
Dispatch(h, pch, has) ==
    IF h.track_event = kMetaEventPrefix THEN DecodeMeta(h)
    ELSE IF h.track_event = kMetaSysExPrefixes[1] \/ h.track_event = kMetaSysExPrefixes[2]
    THEN DecodeSysEx(h)
    ELSE DecodeChannel(h, HighNibble(h.track_event), LowNibble(h.track_event), pch, has)

\* One turn of the loop body from address p: which branch it takes (kind),
\* the reader after it, and what the branch decoded.
Decode(p, ct, last, pch, has) == Dispatch(EventHead(p, ct, last), pch, has)

\* the decode of the state's own loop turn
Dec == Decode(position, current_time, last_track_event, piano_chanel, has_piano_chanel)

-----------------------------------------------------------------------------
(* The sort by tick.  std::sort promises a permutation in which no element *)
(* is less than one before it, and nothing about the order of elements the *)
(* comparison holds equal: every such permutation is an outcome.           *)

Injective(f) == \A i, j \in DOMAIN f : f[i] = f[j] => i = j

\* SortOutcomes of a sort that leaves the list as it is
SortOutcomes_Unsorted(s) == {s}

\* the permutations of s in which ticks never decrease
SortOutcomes(s) ==
    { [i \in 1..Len(s) |-> s[f[i]]] :
        f \in { g \in [1..Len(s) -> 1..Len(s)] :
                  /\ Injective(g)
                  /\ \A i, j \in 1..Len(s) :
                        i < j => ~(s[g[j]].time < s[g[i]].time) } }

-----------------------------------------------------------------------------
(* translate_time *)

\* DeltaTime with the metrical branch in milliseconds per quarter note
DeltaTime_Millis(delta_ticks, header) ==
    IF Bit7(header.chunk_length) = 0
    THEN [num |-> 1000 * delta_ticks, den |-> header.tickdiv]
    ELSE LET fps       == header.tickdiv % 128
             subframes == (header.tickdiv \div 256) % 256
         IN  [num |-> 1000 * delta_ticks, den |-> fps * subframes]

\* the delta_time stored for an event delta_ticks after the one before it
DeltaTime(delta_ticks, header) ==
    IF Bit7(header.chunk_length) = 0
    THEN [num |-> delta_ticks, den |-> header.tickdiv]
    ELSE LET fps       == header.tickdiv % 128
             subframes == (header.tickdiv \div 256) % 256
         IN  [num |-> 1000 * delta_ticks, den |-> fps * subframes]

\* TranslateFrom without last_ticks = events[i].time_.current_ticks: every
\* delta is counted from tick 0
RECURSIVE TranslateFrom_FromZero(_, _, _, _)
TranslateFrom_FromZero(evs, i, last_ticks, header) ==
    IF i > Len(evs) THEN evs
    ELSE LET ev == [evs[i] EXCEPT !.time = DeltaTime(evs[i].time - last_ticks, header)]
         IN  TranslateFrom_FromZero([evs EXCEPT ![i] = ev], i + 1, last_ticks, header)

\* TranslateFrom writing the delta over the payload as well
RECURSIVE TranslateFrom_OverwritesData(_, _, _, _)
TranslateFrom_OverwritesData(evs, i, last_ticks, header) ==
    IF i > Len(evs) THEN evs
    ELSE LET delta_ticks == evs[i].time - last_ticks
             ev == [evs[i] EXCEPT !.time = DeltaTime(delta_ticks, header),
                                  !.data = delta_ticks]
         IN  TranslateFrom_OverwritesData([evs EXCEPT ![i] = ev], i + 1, evs[i].time,
                                          header)

\* the for loop of translate_time from index i on, last_ticks being last
RECURSIVE TranslateFrom(_, _, _, _)
TranslateFrom(evs, i, last_ticks, header) ==
    IF i > Len(evs) THEN evs
    ELSE LET delta_ticks == evs[i].time - last_ticks
             ev == [evs[i] EXCEPT !.time = DeltaTime(delta_ticks, header)]
         IN  TranslateFrom([evs EXCEPT ![i] = ev], i + 1, evs[i].time, header)

translate_time(evs, header) == TranslateFrom(evs, 1, 0, header)

-----------------------------------------------------------------------------
(* The input buffers *)

\* n bytes, big-endian
RECURSIVE BEBytes(_, _)
BEBytes(n, v) == IF n = 0 THEN <<>> ELSE Append(BEBytes(n - 1, v \div 256), v % 256)

HeaderChunk(length, format, ntracks, tickdiv) ==
    TagMThd \o BEBytes(4, length) \o BEBytes(2, format) \o BEBytes(2, ntracks)
            \o BEBytes(2, tickdiv)

TrackChunk(body) == TagMTrk \o BEBytes(4, Len(body)) \o body

\* a chunk no decoder knows: tag "junk", one byte of payload
JunkChunk == <<106, 117, 110, 107>> \o BEBytes(4, 1) \o <<170>>

\* Track events, each with its delta time in front
EvProgram1     == <<0, 193, 0>>                  \* program change, channel 1, program 0
EvProgram0     == <<0, 192, 7>>                  \* program change, channel 0, program 7
EvProgramOther == <<0, 192, 8>>                  \* program change, channel 0, program 8
EvNoteOn0      == <<0, 144, 60, 64>>             \* note-on, channel 0, note 60, velocity 64
EvNoteOnZero1  == <<96, 145, 62, 0>>             \* 96 ticks on: note-on, channel 1, velocity 0
EvNoteOff0     == <<96, 128, 60, 0>>             \* 96 ticks on: note-off, channel 0, note 60
EvNoteOn1      == <<0, 145, 62, 64>>             \* note-on, channel 1, note 62, velocity 64
EvRunning      == <<48, 60, 0>>                  \* 48 ticks on: two data bytes, no status
EvTempo        == <<10, 255, 81, 3, 7, 161, 32>> \* 10 ticks on: set-tempo 500000
EvController   == <<0, 176, 7, 100>>             \* controller, channel 0
EvEndOfTrack   == <<0, 255, 47, 0>>              \* end-of-track meta
EvSysEx        == <<0, 240, 1, 247>>             \* system-exclusive, one byte
EvUnknown      == <<0, 241>>                     \* status 0xF1

EventAlphabet ==
    {EvProgram1, EvProgram0, EvProgramOther, EvNoteOn0, EvNoteOnZero1, EvNoteOff0,
     EvNoteOn1, EvRunning, EvTempo, EvController, EvEndOfTrack, EvSysEx, EvUnknown}

\* the track bodies of exactly n events
RECURSIVE BodiesOf(_)
BodiesOf(n) ==
    IF n = 0 THEN {<<>>}
    ELSE {b \o e : b \in BodiesOf(n - 1), e \in EventAlphabet}

\* the time division of the enumerated files: 96 pulses per quarter note
TickDivs == {96}

\* format 0, 1 and 2 files of one track, and format 1 and 2 files of two, with
\* at most MaxEvents events in all
EnumeratedFiles ==
    UNION { UNION { { HeaderChunk(6, f, 1, d) \o TrackChunk(b) :
                        b \in BodiesOf(n), f \in {0, 1, 2} } : n \in 0..MaxEvents }
            \cup
            UNION { UNION { { HeaderChunk(6, f, 2, d) \o TrackChunk(b1) \o TrackChunk(b2) :
                                b1 \in BodiesOf(n1), b2 \in BodiesOf(n2), f \in {1, 2} } :
                            n2 \in 0..(MaxEvents - n1) } : n1 \in 0..MaxEvents }
          : d \in TickDivs }

\* the file of the end-to-end example: one note, 96 ticks long, at 96 ppqn
ExampleFile ==
    HeaderChunk(6, 0, 1, 96)
    \o TrackChunk(<<0, 192, 0>> \o EvNoteOn0 \o EvNoteOff0 \o EvEndOfTrack)

\* files whose shape the enumeration does not reach
ScenarioFiles ==
    { ExampleFile,
      \* notes on channel 1, then a piano program on channel 0 and a note on it
      HeaderChunk(6, 0, 1, 96)
        \o TrackChunk(EvProgram1 \o EvNoteOn1 \o EvProgram0 \o EvNoteOn0
                      \o EvEndOfTrack),
      \* notes on channel 0, then a piano program on channel 1 and a note on it
      HeaderChunk(6, 0, 1, 96)
        \o TrackChunk(EvProgram0 \o EvNoteOn0 \o EvProgram1 \o EvNoteOn1
                      \o EvEndOfTrack),
      \* header errors
      HeaderChunk(5, 0, 1, 96) \o TrackChunk(EvNoteOn0),
      HeaderChunk(6, 3, 1, 96) \o TrackChunk(EvNoteOn0),
      HeaderChunk(6, 0, 2, 96) \o TrackChunk(EvNoteOn0),
      \* unknown chunks before the header and before the track
      JunkChunk \o HeaderChunk(6, 0, 1, 96) \o JunkChunk
        \o TrackChunk(EvProgram0 \o EvNoteOn0),
      \* no header at all; fewer tracks than announced; no track at all
      JunkChunk,
      HeaderChunk(6, 1, 2, 96) \o TrackChunk(EvTempo),
      HeaderChunk(6, 1, 0, 96),
      \* a delta time whose continuation bit is set on the last byte of the buffer
      HeaderChunk(6, 0, 1, 96) \o TagMTrk \o BEBytes(4, 5) \o EvProgram0 \o <<129>>,
      \* format 1: a tempo track whose events come later than the second track's
      HeaderChunk(6, 1, 2, 96) \o TrackChunk(EvNoteOff0 \o EvTempo)
        \o TrackChunk(EvTempo \o EvProgram0 \o EvNoteOn0 \o EvNoteOff0),
      \* three events on one tick
      HeaderChunk(6, 0, 1, 96)
        \o TrackChunk(EvProgram0 \o EvNoteOn0 \o <<0, 60, 0>> \o EvNoteOn0),
      \* timecode: 25 frames per second, 40 subframes (0xE728)
      HeaderChunk(6, 0, 1, 59176) \o TrackChunk(EvProgram0 \o EvNoteOn0 \o EvNoteOff0),
      \* other pulses per quarter note
      HeaderChunk(6, 0, 1, 1) \o TrackChunk(EvProgram0 \o EvNoteOn0 \o EvNoteOff0),
      HeaderChunk(6, 0, 1, 480) \o TrackChunk(EvProgram0 \o EvNoteOn0 \o EvNoteOff0),
      HeaderChunk(6, 0, 1, 32767) \o TrackChunk(EvProgram0 \o EvNoteOn0 \o EvNoteOff0),
      \* timecode again, the note-off 1000 ticks (0x87 0x68) after the note-on
      HeaderChunk(6, 0, 1, 59176)
        \o TrackChunk(EvProgram0 \o EvNoteOn0 \o <<135, 104, 128, 60, 0>>),
      \* a delta time of six bytes, five of them with the continuation bit
      HeaderChunk(6, 0, 1, 96)
        \o TrackChunk(<<128, 128, 128, 128, 128, 0, 192, 7>> \o EvNoteOn0),
      \* a track chunk that declares 2 bytes and holds events of 3 and 4
      HeaderChunk(6, 0, 1, 96) \o TagMTrk \o BEBytes(4, 2) \o EvProgram0 \o EvNoteOn0,
      \* a set-tempo that declares 2 bytes of data, and one that declares 4
      HeaderChunk(6, 0, 1, 96)
        \o TrackChunk(<<0, 255, 81, 2, 7, 161>> \o EvProgram0 \o EvNoteOn0),
      HeaderChunk(6, 0, 1, 96)
        \o TrackChunk(<<0, 255, 81, 4, 7, 161, 32, 0>> \o EvProgram0 \o EvNoteOn0),
      \* a header that fails two checks: length 5 and format 3; format 3 and no
      \* track; format 0 and no track
      HeaderChunk(5, 3, 1, 96) \o TrackChunk(EvNoteOn0),
      HeaderChunk(6, 3, 0, 96),
      HeaderChunk(6, 0, 0, 96),
      \* an unknown status (0xFE) on a confirmed scope, a second track behind
      HeaderChunk(6, 2, 2, 96)
        \o TrackChunk(EvProgram0 \o EvNoteOn0 \o <<0, 254>> \o EvNoteOff0)
        \o TrackChunk(EvProgram0 \o EvNoteOn0),
      \* an unknown chunk between two tracks
      HeaderChunk(6, 2, 2, 96) \o TrackChunk(EvProgram0 \o EvNoteOn0) \o JunkChunk
        \o TrackChunk(EvProgram1 \o EvNoteOn1),
      \* unknown chunks before the header, before the first track and between
      \* the two tracks
      JunkChunk \o HeaderChunk(6, 2, 2, 96) \o JunkChunk
        \o TrackChunk(EvProgram0 \o EvNoteOn0) \o JunkChunk
        \o TrackChunk(EvProgram1 \o EvNoteOn1),
      \* a second tempo between two notes; a note byte of 200
      HeaderChunk(6, 0, 1, 96)
        \o TrackChunk(EvProgram0 \o EvNoteOn0 \o <<48, 255, 81, 3, 3, 208, 144>>
                      \o EvNoteOff0),
      HeaderChunk(6, 0, 1, 96) \o TrackChunk(EvProgram0 \o <<0, 144, 200, 64>>),
      \* events after an end-of-track, inside the chunk
      HeaderChunk(6, 0, 1, 96)
        \o TrackChunk(EvProgram0 \o EvEndOfTrack \o EvNoteOn0 \o EvNoteOff0) }

\* what may lie in the bytes past the buffer
GarbageBytes == {0, 255}

-----------------------------------------------------------------------------
(* The state machine *)

NoLast == [kind |-> "none", status |-> 0, d1 |-> 0, d2 |-> 0, len |-> 0, time |-> 0,
           pch |-> NoChanel, has |-> FALSE, pos |-> 0, after |-> 0]

\* char gKeys[128] = {}
NoKeys == [k \in 0..127 |-> 0]

\* no turn of the playback loop has slept yet
NoSleep == [num |-> 0, den |-> 1]

Init ==
    /\ mem \in EnumeratedFiles \cup ScenarioFiles
    /\ size = Len(mem)
    /\ pc = "start"
    /\ position = 0
    /\ midi_header = NoHeader
    /\ track = 0
    /\ current_time = 0
    /\ piano_chanel = NoChanel
    /\ has_piano_chanel = FALSE
    /\ end_ = 0
    /\ last_track_event = 0
    /\ events = <<>>
    /\ status = STATUS_SUCCESS
    /\ g_oob = FALSE
    /\ g_nev = 0
    /\ g_entered = {}
    /\ g_last = NoLast
    /\ main_tempo = 0
    /\ gKeys = NoKeys
    /\ sleep_time = NoSleep
    /\ event_it = 0

\* parse_midi up to the for loop: read_midi_header, then the three locals
ReadMidiHeader ==
    /\ pc = "start"
    /\ \E h \in {read_midi_header(position)} :
           /\ h.r.ok
           /\ position' = h.r.pos
           /\ midi_header' = h.header
           /\ g_oob' = (g_oob \/ h.r.top > size)
           /\ IF h.status # STATUS_SUCCESS
              THEN pc' = "done" /\ status' = h.status
              ELSE pc' = "track" /\ status' = status
    /\ current_time' = 0
    /\ piano_chanel' = NoChanel
    /\ has_piano_chanel' = FALSE
    /\ UNCHANGED <<mem, size, track, end_, last_track_event, events,
                   g_nev, g_entered, g_last>>
    /\ UNCHANGED playvars

\* the switch at the head of the current turn of the for loop
Policy == FormatPolicy(midi_header.format, current_time, piano_chanel, has_piano_chanel)

\* the for loop ends: track == ntracks
TracksDone ==
    /\ pc = "track"
    /\ track = midi_header.ntracks
    /\ pc' = "sort"
    /\ UNCHANGED <<mem, size, position, midi_header, track, current_time, piano_chanel,
                   has_piano_chanel, end_, last_track_event, events, status,
                   g_oob, g_nev, g_entered, g_last>>
    /\ UNCHANGED playvars

\* case 1 with a channel already found: continue, the track is not read
TrackSkip ==
    /\ pc = "track"
    /\ track # midi_header.ntracks
    /\ ~Policy.err /\ Policy.skip
    /\ current_time' = Policy.ct
    /\ track' = track + 1
    /\ UNCHANGED <<mem, size, pc, position, midi_header, piano_chanel, has_piano_chanel,
                   end_, last_track_event, events, status,
                   g_oob, g_nev, g_entered, g_last>>
    /\ UNCHANGED playvars

\* TrackEnter leaving last_track_event as the track before left it
TrackEnter_KeepsRunningStatus ==
    /\ pc = "track"
    /\ track # midi_header.ntracks
    /\ ~Policy.skip
    /\ IF Policy.err
       THEN /\ pc' = "done"
            /\ status' = STATUS_MIDI_HEADER_FORMAT_ERROR
            /\ UNCHANGED <<position, current_time, piano_chanel, has_piano_chanel, end_,
                           last_track_event, g_oob, g_nev, g_entered, g_last>>
       ELSE \E th \in {read_track_header(position)} :
                /\ th.r.ok
                /\ current_time' = Policy.ct
                /\ piano_chanel' = Policy.pch
                /\ has_piano_chanel' = Policy.has
                /\ position' = th.r.pos
                /\ end_' = th.r.pos + th.chunk_length
                /\ last_track_event' = last_track_event
                /\ pc' = "event"
                /\ status' = status
                /\ g_oob' = (g_oob \/ th.r.top > size)
                /\ g_nev' = 0
                /\ g_entered' = g_entered \cup {track}
                /\ g_last' = NoLast
    /\ UNCHANGED <<mem, size, midi_header, track, events>>
    /\ UNCHANGED playvars

\* the switch, read_track_header, end and last_track_event
TrackEnter ==
    /\ pc = "track"
    /\ track # midi_header.ntracks
    /\ ~Policy.skip
    /\ IF Policy.err
       THEN /\ pc' = "done"
            /\ status' = STATUS_MIDI_HEADER_FORMAT_ERROR
            /\ UNCHANGED <<position, current_time, piano_chanel, has_piano_chanel, end_,
                           last_track_event, g_oob, g_nev, g_entered, g_last>>
       ELSE \E th \in {read_track_header(position)} :
                /\ th.r.ok
                /\ current_time' = Policy.ct
                /\ piano_chanel' = Policy.pch
                /\ has_piano_chanel' = Policy.has
                /\ position' = th.r.pos
                /\ end_' = th.r.pos + th.chunk_length
                /\ last_track_event' = 0
                /\ pc' = "event"
                /\ status' = status
                /\ g_oob' = (g_oob \/ th.r.top > size)
                /\ g_nev' = 0
                /\ g_entered' = g_entered \cup {track}
                /\ g_last' = NoLast
    /\ UNCHANGED <<mem, size, midi_header, track, events>>
    /\ UNCHANGED playvars

\* the while loop ends: position == end
TrackEnd ==
    /\ pc = "event"
    /\ position = end_
    /\ track' = track + 1
    /\ pc' = "track"
    /\ UNCHANGED <<mem, size, position, midi_header, current_time, piano_chanel,
                   has_piano_chanel, end_, last_track_event, events, status,
                   g_oob, g_nev, g_entered, g_last>>
    /\ UNCHANGED playvars

\* what every turn of the while loop does, whatever the branch: d is its decode
Turn(d) ==
    /\ pc = "event"
    /\ position # end_
    /\ d.r.ok
    /\ position' = d.r.pos
    /\ current_time' = d.time
    /\ last_track_event' = d.last
    /\ g_oob' = (g_oob \/ d.r.top > size)
    /\ g_nev' = g_nev + 1
    /\ g_last' = [kind |-> d.kind, status |-> d.status, d1 |-> d.d1, d2 |-> d.d2,
                  len |-> d.len, time |-> d.time, pch |-> piano_chanel,
                  has |-> has_piano_chanel, pos |-> position, after |-> d.r.pos]
    /\ UNCHANGED <<mem, size, midi_header, track, end_, g_entered>>
    /\ UNCHANGED playvars

\* DecodeTempo appending the event only on a confirmed scope
DecodeTempo_OnlyConfirmed ==
    \E d \in {Dec} :
       /\ Turn(d)
       /\ d.kind = "tempo"
       /\ events' = IF has_piano_chanel
                    THEN Append(events, Event(EVENT_TEMPO_SET, d.d2, d.time, d.status, 0))
                    ELSE events
       /\ UNCHANGED <<pc, piano_chanel, has_piano_chanel, status>>

\* meta event 0x51
DecodeTempo ==
    \E d \in {Dec} :
       /\ Turn(d)
       /\ d.kind = "tempo"
       /\ events' = Append(events, Event(EVENT_TEMPO_SET, d.d2, d.time, d.status, 0))
       /\ UNCHANGED <<pc, piano_chanel, has_piano_chanel, status>>

\* every other meta event, and the system exclusive events
DecodeMetaOrSysEx ==
    \E d \in {Dec} :
       /\ Turn(d)
       /\ d.kind \in {"meta", "sysex"}
       /\ UNCHANGED <<pc, piano_chanel, has_piano_chanel, events, status>>

\* program change
DecodeProgramChange ==
    \E d \in {Dec} :
       /\ Turn(d)
       /\ d.kind = "program"
       /\ \E pcg \in {ProgramChange(d.d1, LowNibble(d.status), piano_chanel,
                                      has_piano_chanel)} :
              /\ piano_chanel' = pcg.pch
              /\ has_piano_chanel' = pcg.has
       /\ UNCHANGED <<pc, events, status>>

\* the skipping branch, on one of the categories its switch knows
DecodeSkipped ==
    \E d \in {Dec} :
       /\ Turn(d)
       /\ d.kind = "skip"
       /\ UNCHANGED <<pc, piano_chanel, has_piano_chanel, events, status>>

\* the skipping branch, on the default of its switch
DecodeUnknown ==
    \E d \in {Dec} :
       /\ Turn(d)
       /\ d.kind = "unknown"
       /\ pc' = "done"
       /\ status' = STATUS_MIDI_EVENT_ERROR
       /\ UNCHANGED <<piano_chanel, has_piano_chanel, events>>

\* note-on and note-off on the piano channel
DecodeNote ==
    \E d \in {Dec} :
       /\ Turn(d)
       /\ d.kind = "note"
       /\ events' = Append(events, Event(NoteKind(HighNibble(d.status), d.d2), d.d1,
                                         d.time, d.status, d.d2))
       /\ UNCHANGED <<pc, piano_chanel, has_piano_chanel, status>>

\* std::sort
SortEvents ==
    /\ pc = "sort"
    /\ events' \in SortOutcomes(events)
    /\ pc' = "translate"
    /\ UNCHANGED <<mem, size, position, midi_header, track, current_time, piano_chanel,
                   has_piano_chanel, end_, last_track_event, status,
                   g_oob, g_nev, g_entered, g_last>>
    /\ UNCHANGED playvars

\* translate_time and the return
TranslateTime ==
    /\ pc = "translate"
    /\ events' = translate_time(events, midi_header)
    /\ status' = STATUS_SUCCESS
    /\ pc' = "done"
    /\ UNCHANGED <<mem, size, position, midi_header, track, current_time, piano_chanel,
                   has_piano_chanel, end_, last_track_event,
                   g_oob, g_nev, g_entered, g_last>>
    /\ UNCHANGED playvars

\* the reader of the step the state is about to take
CurReader ==
    CASE pc = "start" -> read_midi_header(position).r
      [] pc = "track" /\ track # midi_header.ntracks /\ ~Policy.skip /\ ~Policy.err ->
            read_track_header(position).r
      [] pc = "event" /\ position # end_ -> Dec.r
      [] OTHER -> Reader(position)

\* the step needs a byte past the buffer that was not looked at before: it
\* holds some value
ReadBeyond ==
    /\ ~CurReader.ok
    /\ Len(mem) < size + MaxOob
    /\ \E b \in GarbageBytes : mem' = Append(mem, b)
    /\ UNCHANGED <<size, pc, position, midi_header, track, current_time, piano_chanel,
                   has_piano_chanel, end_, last_track_event, events, status,
                   g_oob, g_nev, g_entered, g_last>>
    /\ UNCHANGED playvars

\* the step reads past the buffer and the address is not mapped
Crash ==
    /\ \E r \in {CurReader} : ~r.ok \/ r.top > size
    /\ pc' = "crashed"
    /\ g_oob' = TRUE
    /\ UNCHANGED <<mem, size, position, midi_header, track, current_time, piano_chanel,
                   has_piano_chanel, end_, last_track_event, events, status,
                   g_nev, g_entered, g_last>>
    /\ UNCHANGED playvars

Next ==
    \/ ReadMidiHeader
    \/ TracksDone
    \/ TrackSkip
    \/ TrackEnter
    \/ TrackEnd
    \/ DecodeTempo
    \/ DecodeMetaOrSysEx
    \/ DecodeProgramChange
    \/ DecodeSkipped
    \/ DecodeUnknown
    \/ DecodeNote
    \/ SortEvents
    \/ TranslateTime
    \/ ReadBeyond
    \/ Crash

Spec == Init /\ [][Next]_vars

-----------------------------------------------------------------------------
(* read_var_len on its own: a call of each of the two read_var_len of the    *)
(* repository on a buffer that starts with a well-formed variable-length     *)
(* quantity.  mem is the buffer, position the cursor, current_time receives  *)
(* the value read (current_time += delta_time from 0), and pc tells which    *)
(* of the two has been called.                                               *)

\* the low 7 bits the bytes of the quantities are drawn from
VarLenDigits == {0, 1, 127}
\* the sizes of the quantities, in bytes
VarLenSizes == 1..4

\* the well-formed quantities of n bytes: bit 0x80 set on all bytes but the last
RECURSIVE VarLensOf(_)
VarLensOf(n) ==
    IF n = 1 THEN {<<d>> : d \in VarLenDigits}
    ELSE {<<128 + d>> \o v : d \in VarLenDigits, v \in VarLensOf(n - 1)}

VarLenInit ==
    /\ mem \in {v \o <<MIDI_EVENT_NOTE_ON>> : v \in UNION {VarLensOf(n) : n \in VarLenSizes}}
    /\ size = Len(mem)
    /\ pc = "varlen"
    /\ position = 0
    /\ midi_header = NoHeader
    /\ track = 0
    /\ current_time = 0
    /\ piano_chanel = NoChanel
    /\ has_piano_chanel = FALSE
    /\ end_ = 0
    /\ last_track_event = 0
    /\ events = <<>>
    /\ status = STATUS_SUCCESS
    /\ g_oob = FALSE
    /\ g_nev = 0
    /\ g_entered = {}
    /\ g_last = NoLast
    /\ main_tempo = 0
    /\ gKeys = NoKeys
    /\ sleep_time = NoSleep
    /\ event_it = 0

\* uint64_t delta_time = read_var_len(position); current_time += delta_time
\* with the read_var_len of parse_midi
VarLenParseMidi ==
    /\ pc = "varlen"
    /\ \E v \in {read_var_len(Reader(position))} :
           /\ v.r.ok
           /\ position' = v.r.pos
           /\ current_time' = current_time + v.val
    /\ pc' = "varlen_parse_midi"
    /\ UNCHANGED <<mem, size, midi_header, track, piano_chanel, has_piano_chanel, end_,
                   last_track_event, events, status, g_oob, g_nev, g_entered, g_last>>
    /\ UNCHANGED playvars

\* the same with the read_var_len of handle_midi
VarLenHandleMidi ==
    /\ pc = "varlen"
    /\ \E v \in {piano_midi_read_var_len(Reader(position))} :
           /\ v.r.ok
           /\ position' = v.r.pos
           /\ current_time' = current_time + v.val
    /\ pc' = "varlen_handle_midi"
    /\ UNCHANGED <<mem, size, midi_header, track, piano_chanel, has_piano_chanel, end_,
                   last_track_event, events, status, g_oob, g_nev, g_entered, g_last>>
    /\ UNCHANGED playvars

VarLenNext ==
    \/ VarLenParseMidi
    \/ VarLenHandleMidi

VarLenSpec == VarLenInit /\ [][VarLenNext]_vars

-----------------------------------------------------------------------------
(* handle_midi of src/midi/midi.cc, the variant of the parser that keeps   *)
(* the list in a local vector.  Its header fields are the locals length,   *)
(* format, ntracks and tickdiv (here the fields of midi_header), its       *)
(* read_be is the one of parse_midi, and its program-change, skipping and  *)
(* note branches are those of parse_midi word for word (DecodeChannel).    *)

STATUS_UNEXPECTED_MIDI_HEADER_LENGTH == 2
STATUS_UNEXPECTED_MIDI_FORMAT == 3
STATUS_UNEXPECTED_MIDI_EVENT == 4
STATUS_UNEXPECTED_NTRACKS == 5

\* the header of handle_midi: the scan for "MThd", then the checks in their
\* order, each field read only if the check before it passed
handle_midi_header(p) ==
    LET f == HeaderFields(Skip(SkipToTag(Reader(p), TagMThd), 4))
    IN  IF ~f.length.r.ok
        THEN [r |-> f.length.r, status |-> STATUS_SUCCESS, header |-> NoHeader]
        ELSE IF f.length.val # 6
        THEN [r |-> f.length.r, status |-> STATUS_UNEXPECTED_MIDI_HEADER_LENGTH,
              header |-> [NoHeader EXCEPT !.chunk_length = f.length.val]]
        ELSE IF f.format.val >= 3 \/ ~f.format.r.ok
        THEN [r |-> f.format.r, status |-> STATUS_UNEXPECTED_MIDI_FORMAT,
              header |-> [NoHeader EXCEPT !.chunk_length = f.length.val,
                                          !.format = f.format.val]]
        ELSE IF (f.format.val = 0 /\ f.ntracks.val # 1) \/ ~f.ntracks.r.ok
        THEN [r |-> f.ntracks.r, status |-> STATUS_UNEXPECTED_NTRACKS,
              header |-> [NoHeader EXCEPT !.chunk_length = f.length.val,
                                          !.format = f.format.val,
                                          !.ntracks = f.ntracks.val]]
        ELSE [r |-> f.tickdiv.r, status |-> STATUS_SUCCESS,
              header |-> [chunk_length |-> f.length.val, format |-> f.format.val,
                          ntracks |-> f.ntracks.val, tickdiv |-> f.tickdiv.val]]

\* handle_midi_switch with a break at the end of case 1 and of case 2
handle_midi_switch_WithBreaks(format, ct, pch, has) ==
    FormatPolicy(format, ct, pch, has)

\* the switch at the head of the for loop of handle_midi.  Only case 0 ends
\* in a break: case 1 either takes its continue or runs into case 2, and case
\* 2 runs into the default, which returns.
handle_midi_switch(format, ct, pch, has) ==
    CASE format = 0 ->
            [ct |-> ct, pch |-> pch, has |-> has, skip |-> FALSE, err |-> FALSE]
      [] format = 1 /\ has ->
            [ct |-> 0, pch |-> pch, has |-> has, skip |-> TRUE, err |-> FALSE]
      [] format = 1 /\ ~has ->
            [ct |-> 0, pch |-> NoChanel, has |-> FALSE, skip |-> FALSE, err |-> TRUE]
      [] format = 2 ->
            [ct |-> ct, pch |-> NoChanel, has |-> FALSE, skip |-> FALSE, err |-> TRUE]
      [] OTHER ->
            [ct |-> ct, pch |-> pch, has |-> has, skip |-> FALSE, err |-> TRUE]

\* the track header of handle_midi: its scan looks for "MThd"
handle_midi_track_header(p) ==
    LET length == read_be(Skip(SkipToTag(Reader(p), TagMThd), 4), 4)
    IN  [r |-> length.r, chunk_length |-> length.val]

\* the delta time, the status candidate and the running-status decision
handle_midi_EventHead(p, ct, last) ==
    LET delta == piano_midi_read_var_len(Reader(p))
    IN  HeadWith(delta.val, read_be(delta.r, 1), ct, last)

\* the meta branch of handle_midi once the type and the length are read:
\* position += length, length being the length field of the header chunk
handle_midi_MetaBody(h, meta_event, meta_event_length, length) ==
    IF meta_event = META_EVENT_TEMPO
    THEN LET tempo == read_be(meta_event_length.r, 3)
         IN  [Decoded(h) EXCEPT !.kind = "tempo", !.r = tempo.r, !.d1 = meta_event,
                                !.d2 = tempo.val, !.len = meta_event_length.val]
    ELSE [Decoded(h) EXCEPT !.kind = "meta", !.r = Skip(meta_event_length.r, length),
                            !.d1 = meta_event, !.len = meta_event_length.val]

\* the meta branch of handle_midi
handle_midi_DecodeMeta(h, length) ==
    LET meta_event == read_be(h.r, 1)
    IN  handle_midi_MetaBody(h, meta_event.val, piano_midi_read_var_len(meta_event.r),
                             length)

\* the branch of the system exclusive events of handle_midi
handle_midi_DecodeSysEx(h) ==
    LET sysex_event_length == piano_midi_read_var_len(h.r)
    IN  [Decoded(h) EXCEPT !.kind = "sysex",
                           !.r = Skip(sysex_event_length.r, sysex_event_length.val),
                           !.len = sysex_event_length.val]

\* the dispatch on the status byte of a loop turn of handle_midi
handle_midi_Dispatch(h, length, pch, has) ==
    IF h.track_event = kMetaEventPrefix THEN handle_midi_DecodeMeta(h, length)
    ELSE IF h.track_event = kMetaSysExPrefixes[1] \/ h.track_event = kMetaSysExPrefixes[2]
    THEN handle_midi_DecodeSysEx(h)
    ELSE DecodeChannel(h, HighNibble(h.track_event), LowNibble(h.track_event), pch, has)

\* the decode of the state's own loop turn of handle_midi
HmDec ==
    handle_midi_Dispatch(handle_midi_EventHead(position, current_time, last_track_event),
                         midi_header.chunk_length, piano_chanel, has_piano_chanel)

\* the delta time of handle_midi: metrical if bit 0x0080 of tickdiv is clear;
\* otherwise fps = -(int8_t)(tickdiv & 0xff), subframes = (tickdiv >> 8) & 0xff
handle_midi_DeltaTime(delta_ticks, tickdiv) ==
    IF Bit7(tickdiv) = 0
    THEN [num |-> 1000 * delta_ticks, den |-> tickdiv]
    ELSE LET fps       == 256 - (tickdiv % 256)
             subframes == (tickdiv \div 256) % 256
         IN  [num |-> 1000 * delta_ticks, den |-> fps * subframes]

\* the translation loop of handle_midi from index i on.  current_time and
\* delta_time share a union, and the loop reads current_time of element
\* i - 1 after it has written delta_time there: from the second element on
\* delta_ticks is current_time minus the bits of the double before it, which
\* stays a term here.
RECURSIVE handle_midi_TranslateFrom(_, _, _)
handle_midi_TranslateFrom(evs, i, tickdiv) ==
    IF i > Len(evs) THEN evs
    ELSE LET delta_ticks == IF i = 1 THEN evs[1].time
                            ELSE [current_time |-> evs[i].time,
                                  less_bits_of |-> evs[i - 1].time]
             ev == [evs[i] EXCEPT !.time =
                       IF i = 1 THEN handle_midi_DeltaTime(delta_ticks, tickdiv)
                       ELSE [delta_ticks |-> delta_ticks, tickdiv |-> tickdiv]]
         IN  handle_midi_TranslateFrom([evs EXCEPT ![i] = ev], i + 1, tickdiv)

\* a chunk with the tag "MThd" around a track body: the only track chunk the
\* scan of handle_midi finds
HmTrackChunk(body) == TagMThd \o BEBytes(4, Len(body)) \o body

\* the time divisions of the files of handle_midi: 96 pulses per quarter
\* note, and 0x02E7 (bit 0x0080 set: 25 frames, 2 subframes)
HmTickDivs == {96, 743}

\* the track counts of the headers of handle_midi
HmNTracks == 0..2

\* the files handle_midi is run on: headers of every format and track count
\* with nothing, one or two "MTrk" chunks behind; format 0 files whose track
\* chunk carries the tag "MThd", and format 1 and 2 files with such a chunk;
\* header errors; an unknown chunk in front
HmFiles ==
    { HeaderChunk(6, f, n, 96) : f \in 0..3, n \in HmNTracks }
    \cup { HeaderChunk(6, f, n, 96) \o TrackChunk(EvProgram0 \o EvNoteOn0) :
             f \in 0..2, n \in HmNTracks }
    \cup { HeaderChunk(6, f, n, 96) \o TrackChunk(EvTempo)
             \o TrackChunk(EvProgram0 \o EvNoteOn0) : f \in 1..2, n \in HmNTracks }
    \cup UNION { { HeaderChunk(6, 0, 1, d) \o HmTrackChunk(b) :
                     b \in BodiesOf(n), d \in HmTickDivs } : n \in 0..MaxEvents }
    \cup { HeaderChunk(6, f, n, 96) \o HmTrackChunk(EvProgram0 \o EvNoteOn0) :
             f \in 1..2, n \in HmNTracks }
    \cup { HeaderChunk(5, 1, 1, 96), ExampleFile,
           JunkChunk \o HeaderChunk(6, 1, 0, 96),
           JunkChunk \o HeaderChunk(6, 0, 1, 96) \o JunkChunk
             \o HmTrackChunk(EvProgram0 \o EvNoteOn0 \o EvNoteOff0) }

HmInit ==
    /\ mem \in HmFiles
    /\ size = Len(mem)
    /\ pc = "start"
    /\ position = 0
    /\ midi_header = NoHeader
    /\ track = 0
    /\ current_time = 0
    /\ piano_chanel = NoChanel
    /\ has_piano_chanel = FALSE
    /\ end_ = 0
    /\ last_track_event = 0
    /\ events = <<>>
    /\ status = STATUS_SUCCESS
    /\ g_oob = FALSE
    /\ g_nev = 0
    /\ g_entered = {}
    /\ g_last = NoLast
    /\ main_tempo = 0
    /\ gKeys = NoKeys
    /\ sleep_time = NoSleep
    /\ event_it = 0

\* handle_midi up to the for loop: the header, then the three locals
HmReadHeader ==
    /\ pc = "start"
    /\ \E h \in {handle_midi_header(position)} :
           /\ h.r.ok
           /\ position' = h.r.pos
           /\ midi_header' = h.header
           /\ g_oob' = (g_oob \/ h.r.top > size)
           /\ IF h.status # STATUS_SUCCESS
              THEN pc' = "done" /\ status' = h.status
              ELSE pc' = "track" /\ status' = status
    /\ current_time' = 0
    /\ piano_chanel' = NoChanel
    /\ has_piano_chanel' = FALSE
    /\ UNCHANGED <<mem, size, track, end_, last_track_event, events,
                   g_nev, g_entered, g_last>>
    /\ UNCHANGED playvars

\* the switch of the current turn of the for loop of handle_midi
HmSwitch ==
    handle_midi_switch(midi_header.format, current_time, piano_chanel, has_piano_chanel)

\* one turn of the for loop up to the while loop: the switch (its return, its
\* continue), then the track header, end and last_track_event
HmTrack ==
    /\ pc = "track"
    /\ track # midi_header.ntracks
    /\ \E sw \in {HmSwitch} :
         IF sw.err
         THEN /\ pc' = "done"
              /\ status' = STATUS_UNEXPECTED_MIDI_FORMAT
              /\ current_time' = sw.ct
              /\ piano_chanel' = sw.pch
              /\ has_piano_chanel' = sw.has
              /\ UNCHANGED <<position, track, end_, last_track_event,
                             g_oob, g_nev, g_entered, g_last>>
         ELSE IF sw.skip
         THEN /\ current_time' = sw.ct
              /\ track' = track + 1
              /\ UNCHANGED <<pc, status, position, piano_chanel, has_piano_chanel, end_,
                             last_track_event, g_oob, g_nev, g_entered, g_last>>
         ELSE \E th \in {handle_midi_track_header(position)} :
                /\ th.r.ok
                /\ current_time' = sw.ct
                /\ piano_chanel' = sw.pch
                /\ has_piano_chanel' = sw.has
                /\ position' = th.r.pos
                /\ end_' = th.r.pos + th.chunk_length
                /\ last_track_event' = 0
                /\ pc' = "event"
                /\ g_oob' = (g_oob \/ th.r.top > size)
                /\ g_nev' = 0
                /\ g_entered' = g_entered \cup {track}
                /\ g_last' = NoLast
                /\ UNCHANGED <<status, track>>
    /\ UNCHANGED <<mem, size, midi_header, events>>
    /\ UNCHANGED playvars

\* one turn of the while loop of handle_midi, whatever its branch
HmEvent ==
    \E d \in {HmDec} :
       /\ Turn(d)
       /\ events' =
            IF d.kind = "tempo"
            THEN Append(events, Event(EVENT_TEMPO_SET, d.d2, d.time, d.status, 0))
            ELSE IF d.kind = "note"
            THEN Append(events, Event(NoteKind(HighNibble(d.status), d.d2), d.d1,
                                      d.time, d.status, d.d2))
            ELSE events
       /\ \E pcg \in {IF d.kind = "program"
                      THEN ProgramChange(d.d1, LowNibble(d.status), piano_chanel,
                                         has_piano_chanel)
                      ELSE [pch |-> piano_chanel, has |-> has_piano_chanel]} :
              /\ piano_chanel' = pcg.pch
              /\ has_piano_chanel' = pcg.has
       /\ IF d.kind = "unknown"
          THEN pc' = "done" /\ status' = STATUS_UNEXPECTED_MIDI_EVENT
          ELSE UNCHANGED <<pc, status>>

\* the translation loop and the return of handle_midi
HmTranslateTime ==
    /\ pc = "translate"
    /\ events' = handle_midi_TranslateFrom(events, 1, midi_header.tickdiv)
    /\ status' = STATUS_SUCCESS
    /\ pc' = "done"
    /\ UNCHANGED <<mem, size, position, midi_header, track, current_time, piano_chanel,
                   has_piano_chanel, end_, last_track_event,
                   g_oob, g_nev, g_entered, g_last>>
    /\ UNCHANGED playvars

\* the reader of the step handle_midi is about to take
HmCurReader ==
    CASE pc = "start" -> handle_midi_header(position).r
      [] pc = "track" /\ track # midi_header.ntracks /\ ~HmSwitch.skip /\ ~HmSwitch.err ->
            handle_midi_track_header(position).r
      [] pc = "event" /\ position # end_ -> HmDec.r
      [] OTHER -> Reader(position)

\* the step needs a byte past the buffer that was not looked at before
HmReadBeyond ==
    /\ ~HmCurReader.ok
    /\ Len(mem) < size + MaxOob
    /\ \E b \in GarbageBytes : mem' = Append(mem, b)
    /\ UNCHANGED <<size, pc, position, midi_header, track, current_time, piano_chanel,
                   has_piano_chanel, end_, last_track_event, events, status,
                   g_oob, g_nev, g_entered, g_last>>
    /\ UNCHANGED playvars

\* the step reads past the buffer and the address is not mapped
HmCrash ==
    /\ \E r \in {HmCurReader} : ~r.ok \/ r.top > size
    /\ pc' = "crashed"
    /\ g_oob' = TRUE
    /\ UNCHANGED <<mem, size, position, midi_header, track, current_time, piano_chanel,
                   has_piano_chanel, end_, last_track_event, events, status,
                   g_nev, g_entered, g_last>>
    /\ UNCHANGED playvars

HmNext ==
    \/ HmReadHeader
    \/ TracksDone
    \/ HmTrack
    \/ TrackEnd
    \/ HmEvent
    \/ SortEvents
    \/ HmTranslateTime
    \/ HmReadBeyond
    \/ HmCrash

HandleSpec == HmInit /\ [][HmNext]_vars

-----------------------------------------------------------------------------
(* main of src/MidiParser/test/test.cc: parse_midi, then the playback loop *)
(* over the list, whatever status parse_midi returned.  The worker thread  *)
(* only prints gKeys and is left out.                                      *)

\* double tempo = 500000.
InitialTempo == 500000

\* SleepTime in milliseconds scaled by tempo / 500000
SleepTime_ScaledMillis(tmp, time, translated) ==
    IF translated
    THEN [num |-> tmp * time.num, den |-> time.den * 500]
    ELSE [tempo |-> tmp, times_bits_of |-> time]

\* sleep_time = tempo * event.time.delta_time, in microseconds.  The list is
\* translated only on the way to STATUS_SUCCESS; after an error return
\* delta_time is read from a union that holds current_ticks, and the product
\* stays a term.
SleepTime(tmp, time, translated) ==
    IF translated
    THEN [num |-> tmp * time.num, den |-> time.den]
    ELSE [tempo |-> tmp, times_bits_of |-> time]

\* gKeys after the if chain of the loop body on event e
KeysAfter(keys, e) ==
    IF e.event = EVENT_NOTE_ON /\ e.data \in DOMAIN keys
    THEN [keys EXCEPT ![e.data] = 1]
    ELSE IF e.event = EVENT_NOTE_OFF /\ e.data \in DOMAIN keys
    THEN [keys EXCEPT ![e.data] = 0]
    ELSE keys

\* tempo after the if chain of the loop body on event e
TempoAfter(tmp, e) == IF e.event = EVENT_TEMPO_SET THEN e.data ELSE tmp

\* the loop body indexes gKeys with a note that is not below 128
KeyOutOfRange(e) ==
    /\ (e.event = EVENT_NOTE_ON \/ e.event = EVENT_NOTE_OFF)
    /\ e.data \notin DOMAIN gKeys

\* parse_midi has returned: the status is printed, the countdown is slept,
\* the worker is started and tempo is declared
StartPlayback ==
    /\ pc = "done"
    /\ pc' = "play"
    /\ main_tempo' = InitialTempo
    /\ event_it' = 0
    /\ UNCHANGED <<mem, size, position, midi_header, track, current_time, piano_chanel,
                   has_piano_chanel, end_, last_track_event, events, status,
                   g_oob, g_nev, g_entered, g_last, gKeys, sleep_time>>

\* one turn of for (auto event : events).  A write to gKeys[note] with note
\* of 128 or more lands outside the array: no key changes, and the process
\* goes on or ends.
PlayEvent ==
    /\ pc = "play"
    /\ event_it < Len(events)
    /\ \E e \in {events[event_it + 1]} :
          /\ sleep_time' = SleepTime(main_tempo, e.time, status = STATUS_SUCCESS)
          /\ gKeys' = KeysAfter(gKeys, e)
          /\ main_tempo' = TempoAfter(main_tempo, e)
          /\ IF KeyOutOfRange(e)
             THEN g_oob' = TRUE /\ pc' \in {"play", "crashed"}
             ELSE UNCHANGED <<g_oob, pc>>
    /\ event_it' = event_it + 1
    /\ UNCHANGED <<mem, size, position, midi_header, track, current_time, piano_chanel,
                   has_piano_chanel, end_, last_track_event, events, status,
                   g_nev, g_entered, g_last>>

\* the loop is over: gNeedDrawing = false, t.join()
EndPlayback ==
    /\ pc = "play"
    /\ event_it = Len(events)
    /\ pc' = "played"
    /\ UNCHANGED <<mem, size, position, midi_header, track, current_time, piano_chanel,
                   has_piano_chanel, end_, last_track_event, events, status,
                   g_oob, g_nev, g_entered, g_last, main_tempo, gKeys, sleep_time,
                   event_it>>

MainNext ==
    \/ ReadMidiHeader
    \/ TracksDone
    \/ TrackSkip
    \/ TrackEnter
    \/ TrackEnd
    \/ DecodeTempo
    \/ DecodeMetaOrSysEx
    \/ DecodeProgramChange
    \/ DecodeSkipped
    \/ DecodeUnknown
    \/ DecodeNote
    \/ SortEvents
    \/ TranslateTime
    \/ ReadBeyond
    \/ Crash
    \/ StartPlayback
    \/ PlayEvent
    \/ EndPlayback

MainSpec == Init /\ [][MainNext]_vars

-----------------------------------------------------------------------------
(* Vocabulary of the properties *)

\* the step is a turn of the while loop (one event decoded)
IsTurn == g_nev' = g_nev + 1

IsNoteStatus(st) ==
    HighNibble(st) = MIDI_EVENT_NOTE_ON \/ HighNibble(st) = MIDI_EVENT_NOTE_OFF

IsNote(e) == e.event = EVENT_NOTE_ON \/ e.event = EVENT_NOTE_OFF

\* two events of one logical scope: the file for formats 0 and 1, the track
\* for format 2
SameScope(e1, e2) == midi_header.format # 2 \/ e1.g_track = e2.g_track

\* parse_midi has returned STATUS_SUCCESS
Succeeded == pc = "done" /\ status = STATUS_SUCCESS

\* ... and every byte it read was a byte of the buffer
SucceededInBuffer == Succeeded /\ ~g_oob

\* the ticks between event i of the list and the one before it
DeltaTicks(i) == IF i = 1 THEN events[1].g_ticks
                 ELSE events[i].g_ticks - events[i - 1].g_ticks

\* the header's time division is metrical: bit 15 of tickdiv is clear
Metrical == midi_header.tickdiv < 32768

-----------------------------------------------------------------------------
(* C1 *)

\* C1: a turn of the loop on a note-on or note-off status appends one event
\* if a piano channel is confirmed when the turn starts and the status's
\* channel is that channel; every other turn on a note status leaves the
\* event list as it is and moves the cursor two bytes past the status.
C1_NoteOnlyOnPianoChanel ==
    [][ (IsTurn /\ IsNoteStatus(g_last'.status)) =>
          IF has_piano_chanel /\ LowNibble(g_last'.status) = piano_chanel
          THEN /\ Len(events') = Len(events) + 1
               /\ IsNote(events'[Len(events')])
          ELSE /\ events' = events
               /\ position' = EventHead(position, current_time, last_track_event).r.pos + 2
      ]_vars

\* a note on the confirmed channel has just been appended
C1_Witness ==
    /\ g_last.kind = "note"
    /\ g_last.has
    /\ LowNibble(g_last.status) = g_last.pch
    /\ events # <<>>
    /\ events[Len(events)].g_status = g_last.status

-----------------------------------------------------------------------------
(* C2 *)

\* C2 as claimed: after a successful parse of a format-0 file that stayed
\* inside the buffer, all the note events come from one channel.
C2_OneChanelPerScope ==
    (SucceededInBuffer /\ midi_header.format = 0) =>
        \A i, j \in 1..Len(events) :
            (IsNote(events[i]) /\ IsNote(events[j])) =>
                LowNibble(events[i].g_status) = LowNibble(events[j].g_status)

\* C2: within one logical scope the channels of the emitted note events
\* never increase in the order of decoding: a later note event comes from
\* the same channel as an earlier one, or from a lower one.
C2_ChanelNeverIncreases ==
    \A i, j \in 1..Len(events) :
        (/\ IsNote(events[i]) /\ IsNote(events[j])
         /\ SameScope(events[i], events[j])
         /\ events[i].g_seq < events[j].g_seq) =>
            LowNibble(events[j].g_status) <= LowNibble(events[i].g_status)

\* a successful format-0 parse holding notes of two channels
C2_Witness ==
    /\ SucceededInBuffer
    /\ midi_header.format = 0
    /\ \E i, j \in 1..Len(events) :
          /\ IsNote(events[i]) /\ IsNote(events[j])
          /\ events[i].g_seq < events[j].g_seq
          /\ LowNibble(events[j].g_status) < LowNibble(events[i].g_status)

-----------------------------------------------------------------------------
(* C3 *)

\* C3 as claimed: once a channel is confirmed, no turn of the loop changes it.
C3_FirstWins ==
    [][ (IsTurn /\ has_piano_chanel) => piano_chanel' = piano_chanel ]_vars

\* C3: once a channel is confirmed, a turn of the loop changes it only on a
\* program change whose program is in 0..7 and whose channel is lower than
\* the confirmed one, and then to that channel; it stays confirmed.
C3_LowestWins ==
    [][ (IsTurn /\ has_piano_chanel) =>
          /\ has_piano_chanel'
          /\ piano_chanel' =
                IF /\ HighNibble(g_last'.status) = MIDI_EVENT_PROGRAM_CHANGE
                   /\ g_last'.d1 \in 0..7
                   /\ LowNibble(g_last'.status) < piano_chanel
                THEN LowNibble(g_last'.status)
                ELSE piano_chanel
      ]_vars

\* a program change has just lowered a confirmed channel
C3_Witness ==
    /\ g_last.kind = "program"
    /\ g_last.has
    /\ has_piano_chanel
    /\ piano_chanel < g_last.pch

-----------------------------------------------------------------------------
(* C4 *)

\* C4: with no channel confirmed, a program change confirms its channel if
\* its program is in 0..7 and leaves the scope unconfirmed if not.
C4_ConfirmsExactlyPiano ==
    [][ (/\ IsTurn
         /\ HighNibble(g_last'.status) = MIDI_EVENT_PROGRAM_CHANGE
         /\ ~has_piano_chanel) =>
          IF g_last'.d1 \in 0..7
          THEN has_piano_chanel' /\ piano_chanel' = LowNibble(g_last'.status)
          ELSE ~has_piano_chanel' /\ piano_chanel' = NoChanel
      ]_vars

\* program 7 has just confirmed a channel
C4_Witness ==
    /\ g_last.kind = "program"
    /\ ~g_last.has
    /\ g_last.d1 = 7
    /\ has_piano_chanel
    /\ piano_chanel = LowNibble(g_last.status)

-----------------------------------------------------------------------------
(* C5 *)

\* C5: the event a note turn appends holds the note byte and the tick of
\* the turn; its kind is NoteOn for a note-on status with velocity >= 1 and
\* NoteOff otherwise, so a note-on with velocity 0 and a note-off of the
\* same note at the same tick append the same (kind, note, tick).
C5_VelocityZeroIsNoteOff ==
    [][ (IsTurn /\ g_last'.kind = "note") =>
          /\ Len(events') = Len(events) + 1
          /\ events'[Len(events')].data = g_last'.d1
          /\ events'[Len(events')].time = g_last'.time
          /\ events'[Len(events')].event =
                IF HighNibble(g_last'.status) = MIDI_EVENT_NOTE_ON /\ g_last'.d2 >= 1
                THEN EVENT_NOTE_ON
                ELSE EVENT_NOTE_OFF
      ]_vars

\* a note-on with velocity 0 was stored as NoteOff
C5_Witness ==
    \E i \in 1..Len(events) :
        /\ HighNibble(events[i].g_status) = MIDI_EVENT_NOTE_ON
        /\ events[i].g_vel = 0
        /\ events[i].event = EVENT_NOTE_OFF

-----------------------------------------------------------------------------
(* C6 *)

\* C6 as claimed: when the loop over the tracks of a format-1 file ends,
\* the MTrk header of every track was read, also of the tracks after the one
\* that confirmed a channel.
C6_LaterTracksDecoded ==
    (midi_header.format = 1 /\ pc = "sort") =>
        g_entered = 0..(midi_header.ntracks - 1)

\* C6: in a format-1 file every track that is decoded starts at tick 0;
\* once a channel is confirmed no further track is decoded (the tracks after
\* it are passed over and emit nothing); while no channel is confirmed the
\* loop passes over no track.
C6_ConfirmedSkipsLaterTracks ==
    [][ midi_header.format = 1 =>
          /\ (pc = "track" /\ pc' = "event") => current_time' = 0
          /\ has_piano_chanel => g_entered' = g_entered
          /\ (pc = "track" /\ ~has_piano_chanel) => track' = track
      ]_vars

\* a format-1 parse reached the sort with a track never read
C6_Witness ==
    /\ midi_header.format = 1
    /\ pc = "sort"
    /\ has_piano_chanel
    /\ g_entered # {}
    /\ g_entered # 0..(midi_header.ntracks - 1)

-----------------------------------------------------------------------------
(* C7 *)

\* C7 as claimed: at the first event of every track of a format-2 file the
\* running tick is 0 and no channel is confirmed.
C7_TickAndChanelReset ==
    (midi_header.format = 2 /\ pc = "event" /\ g_nev = 0 /\ position # end_) =>
        (current_time = 0 /\ ~has_piano_chanel /\ piano_chanel = NoChanel)

\* C7: in a format-2 file entering a track resets the channel confirmation
\* and leaves the running tick as the track before left it: at the first
\* event of a track no channel is confirmed, and the tick is 0 in the first
\* track only.
C7_ChanelResetTickKept ==
    [][ (midi_header.format = 2 /\ pc = "track" /\ pc' = "event") =>
          /\ ~has_piano_chanel'
          /\ piano_chanel' = NoChanel
          /\ current_time' = current_time
          /\ (track = 0 => current_time' = 0)
      ]_vars

\* the second track of a format-2 file is entered with the tick counter above
\* 0 (carried over from the first track) and no confirmed channel
C7_Witness ==
    /\ midi_header.format = 2
    /\ pc = "event"
    /\ g_nev = 0
    /\ position # end_
    /\ track = 1
    /\ current_time > 0
    /\ ~has_piano_chanel

-----------------------------------------------------------------------------
(* C8 *)

\* C8: in the list a successful parse_midi returns, an event with a lower
\* absolute tick stands before every event with a higher one.
C8_OrderedByTick ==
    Succeeded =>
        \A i, j \in 1..Len(events) :
            events[i].g_ticks < events[j].g_ticks => i < j

\* a successful parse in which the sort moved an event in front of one
\* decoded before it
C8_Witness ==
    /\ Succeeded
    /\ \E i, j \in 1..Len(events) :
          /\ i < j
          /\ events[i].g_ticks < events[j].g_ticks
          /\ events[i].g_seq > events[j].g_seq

-----------------------------------------------------------------------------
(* C9 *)

\* C9: in the list a successful parse_midi returns, two events with the
\* same absolute tick stand in the order in which they were decoded.
C9_StableSort ==
    Succeeded =>
        \A i, j \in 1..Len(events) :
            (events[i].g_ticks = events[j].g_ticks /\ events[i].g_seq < events[j].g_seq)
                => i < j

-----------------------------------------------------------------------------
(* C10 *)

\* C10 as claimed: with a metrical time division every delta is
\* 1000 * delta_ticks / ppqn.
C10_MillisPerQuarter ==
    (Succeeded /\ Metrical) =>
        \A i \in 1..Len(events) :
            /\ events[i].time.den # 0
            /\ events[i].time.num * midi_header.tickdiv
                  = 1000 * DeltaTicks(i) * events[i].time.den

\* C10: with a metrical time division every delta is delta_ticks / ppqn, in
\* quarter notes: at 96 ppqn an event 96 ticks after the one before it gets
\* the delta 1.
C10_QuartersPerTick ==
    (Succeeded /\ Metrical) =>
        \A i \in 1..Len(events) :
            /\ events[i].time.den # 0
            /\ events[i].time.num * midi_header.tickdiv
                  = DeltaTicks(i) * events[i].time.den
            /\ (midi_header.tickdiv = 96 /\ DeltaTicks(i) = 96)
                  => events[i].time.num = events[i].time.den

\* at 96 ppqn the second of two events 96 ticks apart has the delta 96 / 96
C10_Witness ==
    /\ Succeeded
    /\ midi_header.tickdiv = 96
    /\ \E i \in 2..Len(events) :
          /\ DeltaTicks(i) = 96
          /\ events[i].time = [num |-> 96, den |-> 96]

-----------------------------------------------------------------------------
(* C11 *)

\* the frames per second and the subframes the time division field holds when
\* its bit 15 is set: minus the signed high byte, and the low byte
TimecodeFps == 256 - (midi_header.tickdiv \div 256)
TimecodeSubframes == midi_header.tickdiv % 256

\* the fraction num / den (num >= 0, den > 0) in lowest terms
RECURSIVE Gcd(_, _)
Gcd(a, b) == IF b = 0 THEN a ELSE Gcd(b, a % b)
Lowest(num, den) == [num |-> num \div Gcd(num, den), den |-> den \div Gcd(num, den)]

\* C11: with a time division whose bit 15 is set, every delta of a successful
\* parse is 1000 * delta_ticks / (fps * subframes), fps being minus the signed
\* high byte and subframes the low byte of the field.
C11_TimecodeDelta ==
    (Succeeded /\ ~Metrical) =>
        \A i \in 1..Len(events) :
            /\ events[i].time.den # 0
            /\ TimecodeFps * TimecodeSubframes # 0
            /\ Lowest(events[i].time.num, events[i].time.den)
                  = Lowest(1000 * DeltaTicks(i), TimecodeFps * TimecodeSubframes)

-----------------------------------------------------------------------------
(* C12 *)

\* the delta_ticks translate_time divided to get the delta of event e: the
\* numerator of the first branch, a thousandth of the numerator of the second
StoredDeltaTicks(e) ==
    IF Bit7(midi_header.chunk_length) = 0 THEN e.time.num ELSE e.time.num \div 1000

\* the sum of the delta_ticks of the first i events of the list
RECURSIVE SumDeltaTicks(_)
SumDeltaTicks(i) ==
    IF i = 0 THEN 0 ELSE SumDeltaTicks(i - 1) + StoredDeltaTicks(events[i])

\* C12: after a successful parse every event of the list carries one delta;
\* its delta_ticks is not negative, and the delta_ticks of the events up to
\* and including event i add up to the absolute tick of event i (so the first
\* is counted from tick 0 and each other from the event before it).
C12_DeltasSumToTicks ==
    Succeeded =>
        \A i \in 1..Len(events) :
            /\ DOMAIN events[i].time = {"num", "den"}
            /\ StoredDeltaTicks(events[i]) >= 0
            /\ SumDeltaTicks(i) = events[i].g_ticks

\* a successful parse of two events, the first after tick 0 and the second
\* after the first
C12_Witness ==
    /\ Succeeded
    /\ Len(events) >= 2
    /\ events[1].g_ticks > 0
    /\ events[2].g_ticks > events[1].g_ticks
    /\ StoredDeltaTicks(events[2]) = events[2].g_ticks - events[1].g_ticks

-----------------------------------------------------------------------------
(* C13 *)

\* the parse of the example file has returned the list <<note-on 60 with the
\* delta 0, note-off 60 with the delta d>>, d = dnum / 1
ExampleResult(dnum) ==
    /\ status = STATUS_SUCCESS
    /\ Len(events) = 2
    /\ events[1].event = EVENT_NOTE_ON /\ events[1].data = 60
    /\ events[1].time.den # 0 /\ events[1].time.num = 0
    /\ events[2].event = EVENT_NOTE_OFF /\ events[2].data = 60
    /\ events[2].time.den # 0 /\ events[2].time.num = dnum * events[2].time.den

\* C13 as claimed: the example file (format 0, 96 ppqn, one track of a
\* program change, a note-on, a note-off 96 ticks later and an end-of-track)
\* yields SUCCESS and <<NoteOn(60, 0), NoteOff(60, 1000)>>.
C13_ExampleMillis ==
    (mem = ExampleFile /\ pc = "done") => ExampleResult(1000)

\* C13: the example file yields SUCCESS and <<NoteOn(60, 0), NoteOff(60, 1)>>:
\* the note-off's delta is one quarter note.
C13_ExampleQuarters ==
    (mem = ExampleFile /\ pc = "done") => ExampleResult(1)

\* parse_midi has returned from the example file with two events
C13_Witness ==
    /\ mem = ExampleFile
    /\ pc = "done"
    /\ Len(events) = 2
    /\ events[2].g_ticks = 96

-----------------------------------------------------------------------------
(* C14 *)

\* C14: whatever the buffer, parse_midi runs to a return.  The form a finite
\* run refutes: no run ends anywhere but in a return, that is, the process is
\* never stopped inside the header scan, the track scan, the event loop or a
\* variable-length read.
C14_AlwaysReturns == pc # "crashed"

-----------------------------------------------------------------------------
(* C15 *)

\* C15: the cursor never leaves the size bytes of the caller's buffer and no
\* read, peek or skip touches an address past them.
C15_CursorInBuffer ==
    /\ ~g_oob
    /\ position >= 0
    /\ position <= size

-----------------------------------------------------------------------------
(* C16 *)

\* the bytes the variable-length quantity at address p takes in memory: up
\* to and including the first byte whose bit 0x80 is clear, or up to the last
\* byte of memory
RECURSIVE EncodedLen(_)
EncodedLen(p) ==
    IF p < 0 \/ p >= Len(mem) THEN 0
    ELSE IF HighBit(mem[p + 1]) = 0 THEN 1
    ELSE 1 + EncodedLen(p + 1)

\* the variable-length quantity at address p is cut by the end of the buffer:
\* every byte from p to the last one of the buffer has bit 0x80 set
VarLenTruncated(p) ==
    /\ p >= 0 /\ p < size
    /\ \A a \in p..(size - 1) : HighBit(mem[a + 1]) # 0

\* C16: a loop turn whose delta time is cut by the end of the buffer, or is
\* encoded in more than 5 bytes, makes parse_midi return an error, and no
\* byte past the buffer is read.
C16_MalformedVarInt ==
    [][ ( /\ pc = "event"
          /\ position # end_
          /\ (VarLenTruncated(position) \/ EncodedLen(position) > 5) )
        => (pc' = "done" /\ status' # STATUS_SUCCESS /\ ~g_oob')
      ]_vars

-----------------------------------------------------------------------------
(* C17 *)

RECURSIVE Pow128(_)
Pow128(k) == IF k = 0 THEN 1 ELSE 128 * Pow128(k - 1)

\* the sum of (b_i & 0x7f) * 128^(n - i) over the first n bytes of memory
RECURSIVE VarLenSum(_, _)
VarLenSum(i, n) ==
    IF i > n THEN 0 ELSE Low7(mem[i]) * Pow128(n - i) + VarLenSum(i + 1, n)

\* C17: on a well-formed quantity of n = 1..4 bytes each of the two
\* read_var_len returns the sum of (b_i & 0x7f) * 128^(n - i) and leaves the
\* cursor n bytes further.
C17_VarLenBothVariants ==
    pc \in {"varlen_parse_midi", "varlen_handle_midi"} =>
        /\ position = EncodedLen(0)
        /\ current_time = VarLenSum(1, EncodedLen(0))

-----------------------------------------------------------------------------
(* C18 *)

\* C18: a loop turn that moves the cursor past the declared end of the track
\* chunk makes parse_midi return an error, and the loop of a track is left
\* for the next track only with the cursor on the declared end.
C18_ExactChunkLength ==
    [][ /\ (IsTurn /\ position' > end_) => (pc' = "done" /\ status' # STATUS_SUCCESS)
        /\ (pc = "event" /\ pc' = "track") => position = end_
      ]_vars

-----------------------------------------------------------------------------
(* C19 *)

\* the bytes bs lie in memory at address p
AtBytes(p, bs) ==
    /\ p >= 0 /\ p + Len(bs) <= Len(mem)
    /\ SubSeq(mem, p + 1, p + Len(bs)) = bs

\* the last loop turn of the current track decoded an end-of-track meta event
AfterEndOfTrack == pc = "event" /\ g_last.kind = "meta" /\ g_last.d1 = 47

\* C19 as claimed: once a loop turn has decoded an end-of-track, no further
\* turn of the loop is taken in that track.
C19_EndOfTrackTerminates ==
    [][ AfterEndOfTrack => ~IsTurn ]_vars

\* C19: an end-of-track (00 FF 2F 00) is consumed like every other meta event
\* that is no set-tempo: the turn appends nothing, moves the cursor past its 4
\* bytes and stays in the loop; and the turn after an end-of-track decodes the
\* bytes that follow it, appending an event exactly when they are a set-tempo
\* or a note of the piano channel.
C19_EndOfTrackIsSkipped ==
    [][ /\ (IsTurn /\ AtBytes(position, EvEndOfTrack))
              => /\ g_last'.kind = "meta"
                 /\ pc' = "event"
                 /\ events' = events
                 /\ position' = position + 4
        /\ (IsTurn /\ AfterEndOfTrack)
              => /\ g_last'.pos = g_last.after
                 /\ (g_last'.kind \in {"note", "tempo"}
                        <=> Len(events') = Len(events) + 1)
      ]_vars

\* a note decoded from the bytes right after an end-of-track of the same
\* track chunk is in the list
C19_Witness ==
    /\ pc = "event"
    /\ g_last.kind = "note"
    /\ AtBytes(g_last.pos - 4, EvEndOfTrack)
    /\ Len(events) > 0
    /\ events[Len(events)].g_track = track
    /\ events[Len(events)].g_ticks = g_last.time

-----------------------------------------------------------------------------
(* C20 *)

\* C20: a loop turn on a set-tempo (FF 51) that declares the length 3 appends
\* a tempo event with the 3-byte big-endian value at the current tick; one
\* that declares another length appends nothing.
C20_TempoLengthThree ==
    [][ (IsTurn /\ g_last'.status = kMetaEventPrefix /\ g_last'.d1 = META_EVENT_TEMPO)
        => IF g_last'.len = 3
           THEN /\ Len(events') = Len(events) + 1
                /\ events'[Len(events')].event = EVENT_TEMPO_SET
                /\ events'[Len(events')].data = g_last'.d2
                /\ events'[Len(events')].time = current_time'
           ELSE events' = events
      ]_vars

-----------------------------------------------------------------------------
(* C21 *)

\* the status bytes of no recognized category: 0xF1..0xF6 and 0xF8..0xFE
UnknownStatuses == (241..246) \cup (248..254)

\* C21: a loop turn on a status byte of no recognized category makes
\* parse_midi return STATUS_MIDI_EVENT_ERROR, whether a channel is confirmed
\* or not, and appends nothing; and once parse_midi has returned it takes no
\* further step, so nothing of this or of a later track is decoded.
C21_UnknownStatusAborts ==
    [][ /\ (IsTurn /\ g_last'.status \in UnknownStatuses)
              => /\ pc' = "done"
                 /\ status' = STATUS_MIDI_EVENT_ERROR
                 /\ events' = events
        /\ pc # "done"
      ]_vars

\* parse_midi has returned the event error from the first of two tracks, on a
\* status of no recognized category met with a channel confirmed
C21_Witness ==
    /\ pc = "done"
    /\ status = STATUS_MIDI_EVENT_ERROR
    /\ g_last.status \in UnknownStatuses
    /\ g_last.has
    /\ g_last.after < end_
    /\ midi_header.ntracks = 2
    /\ g_entered = {0}

-----------------------------------------------------------------------------
(* C22 *)

\* the bytes of the memory that a header chunk at address 0 holds as its
\* length, format and track count
RawLength == BEValue(Reader(4), 4, 0)
RawFormat == BEValue(Reader(8), 2, 0)
RawNTracks == BEValue(Reader(10), 2, 0)

\* the buffer starts with an MThd chunk
HeaderFirst == AtBytes(0, TagMThd) /\ Len(mem) >= 14

\* C22: when the MThd chunk declares a length other than 6, parse_midi
\* returns the header-length error with an empty list, the cursor right after
\* the length field: neither the format, nor the track count, nor a track was
\* read.
C22_HeaderLength ==
    (pc = "done" /\ HeaderFirst /\ RawLength # 6) =>
        /\ status = STATUS_MIDI_HEADER_LENGTH_ERROR
        /\ events = <<>>
        /\ position = 8
        /\ midi_header.format = 0 /\ midi_header.ntracks = 0
        /\ g_entered = {}

\* parse_midi has returned from a buffer whose header declares the length 5
C22_Witness ==
    /\ pc = "done"
    /\ HeaderFirst
    /\ RawLength = 5
    /\ status = STATUS_MIDI_HEADER_LENGTH_ERROR

-----------------------------------------------------------------------------
(* C23 *)

\* C23: the header is checked in the order length, format, track count, and
\* the first check that fails gives the status: a wrong length wins over a
\* wrong format, with length 6 a format >= 3 gives the format error whatever
\* the track count, and format 0 with a track count other than 1 gives the
\* track-count error; no track is decoded in any of these cases.
C23_HeaderCheckOrder ==
    (pc = "done" /\ HeaderFirst) =>
        /\ (RawLength # 6 /\ RawFormat >= 3)
              => status = STATUS_MIDI_HEADER_LENGTH_ERROR
        /\ (RawLength = 6 /\ RawFormat >= 3)
              => (status = STATUS_MIDI_HEADER_FORMAT_ERROR /\ g_entered = {}
                  /\ events = <<>>)
        /\ (RawLength = 6 /\ RawFormat = 0 /\ RawNTracks # 1)
              => (status = STATUS_MIDI_HEADER_NTRACKS_ERROR /\ g_entered = {}
                  /\ events = <<>>)

\* parse_midi has returned the track-count error from a format 0 header
\* announcing two tracks
C23_Witness ==
    /\ pc = "done"
    /\ HeaderFirst
    /\ RawLength = 6 /\ RawFormat = 0 /\ RawNTracks = 2
    /\ status = STATUS_MIDI_HEADER_NTRACKS_ERROR

-----------------------------------------------------------------------------
(* C24 *)

\* the scan for tag from the cursor leaves the buffer before it finds the tag
ScanExhausts(tag) ==
    \E r \in {SkipToTag(Reader(position), tag)} : ~r.ok \/ r.top > size

\* C24: a scan for "MThd", or for the "MTrk" of a track the header announced,
\* that reaches the end of the buffer without finding the tag ends in parse_midi
\* returning an error, and reads nothing past the buffer.
C24_TagScanBounded ==
    [][ ( \/ (pc = "start" /\ ScanExhausts(TagMThd))
          \/ ( /\ pc = "track" /\ track # midi_header.ntracks
                /\ ~Policy.skip /\ ~Policy.err
                /\ ScanExhausts(TagMTrk) ) )
        => (pc' = "done" /\ status' # STATUS_SUCCESS /\ ~g_oob')
      ]_vars

-----------------------------------------------------------------------------
(* C25 *)

\* a complete chunk lies at the cursor whose tag is not the tag looked for
UnknownChunkAt(tag) ==
    /\ position >= 0 /\ position + 8 <= size
    /\ ~TagIs(Reader(position), tag)
    /\ position + 8 + BEValue(Reader(position + 4), 4, 0) <= size

\* the address right after the chunk at the cursor
ChunkEnd == position + 8 + BEValue(Reader(position + 4), 4, 0)

\* C25: an unknown chunk is transparent to both scans.  A header read that
\* starts on a complete chunk of another tag ends exactly as a header read
\* started right after that chunk: same cursor, same header, same status.  A
\* track entry that starts on a complete chunk of another tag ends exactly as
\* one started right after it: same cursor, same end of the track, and the
\* list, the tick counter and the channel are what the switch alone makes
\* them.
C25_UnknownChunksSkipped ==
    [][ /\ (pc = "start" /\ pc' # "start" /\ pc' # "crashed" /\ UnknownChunkAt(TagMThd))
              => \E h \in {read_midi_header(ChunkEnd)} :
                    /\ position' = h.r.pos
                    /\ midi_header' = h.header
                    /\ (h.status # STATUS_SUCCESS => (pc' = "done" /\ status' = h.status))
                    /\ (h.status = STATUS_SUCCESS => pc' = "track")
                    /\ events' = events
        /\ (pc = "track" /\ pc' = "event" /\ UnknownChunkAt(TagMTrk))
              => \E th \in {read_track_header(ChunkEnd)} :
                    /\ position' = th.r.pos
                    /\ end_' = th.r.pos + th.chunk_length
                    /\ events' = events
                    /\ current_time' = Policy.ct
                    /\ piano_chanel' = Policy.pch
                    /\ has_piano_chanel' = Policy.has
      ]_vars

\* a file with an unknown chunk before the header, one between the header and
\* the first track and one between the two tracks was parsed to the end, and a
\* note of each track is in the list
C25_Witness ==
    /\ pc = "done"
    /\ status = STATUS_SUCCESS
    /\ ~g_oob
    /\ AtBytes(0, JunkChunk)
    /\ AtBytes(Len(JunkChunk) + 14, JunkChunk)
    /\ AtBytes(2 * Len(JunkChunk) + 14 + 8 + 7, JunkChunk)
    /\ g_entered = {0, 1}
    /\ Len(events) = 2
    /\ {events[1].g_track, events[2].g_track} = {0, 1}

-----------------------------------------------------------------------------
(* C26 *)

\* C26: when parse_midi returns a status other than STATUS_SUCCESS, the event
\* list holds none of the events decoded before the error.
C26_NoPartialResults ==
    (pc = "done" /\ status # STATUS_SUCCESS) => events = <<>>

-----------------------------------------------------------------------------
(* C27 *)

\* C27: the result of a call is a function of the buffer alone, so that two
\* calls on the same buffer agree: no step of the parse takes a value from
\* memory outside the buffer, whose content the two calls need not share, and
\* no step faults on it.
C27_ResultFromBufferOnly ==
    [][ mem' = mem /\ pc' # "crashed" ]_vars

-----------------------------------------------------------------------------
(* C28 *)

\* the data bytes the branch of a channel-voice status reads or skips
DataBytes(st) ==
    IF HighNibble(st) = MIDI_EVENT_PROGRAM_CHANGE
       \/ HighNibble(st) = MIDI_EVENT_CHANEL_AFTERTOUCH
    THEN 1 ELSE 2

\* a channel-voice status: 0x80..0xEF
IsChannelVoice(st) == st >= 128 /\ st < 240

\* C28: in every loop turn that stays inside the buffer, the status the turn
\* acts on is the stored running status when the byte after the delta time has
\* its high bit clear and that byte otherwise, and it becomes the stored
\* status; for a channel-voice status the data bytes are the ones that follow
\* the status byte where it is written and the delta time where it is not,
\* the cursor ends right after them, and the branch taken and the event
\* emitted are those of the status and the data bytes alone.
C28_RunningStatus ==
    [][ (IsTurn /\ ~g_oob') =>
          \E c \in {position + EncodedLen(position)} :
          \E st \in {IF HighBit(mem[c + 1]) = 0 THEN last_track_event ELSE mem[c + 1]} :
          \E dataAt \in {IF HighBit(mem[c + 1]) = 0 THEN c ELSE c + 1} :
             /\ last_track_event' = st
             /\ g_last'.status = st
             /\ IsChannelVoice(st) =>
                   /\ position' = dataAt + DataBytes(st)
                   /\ (g_last'.kind = "note")
                         <=> ( /\ IsNoteStatus(st) /\ has_piano_chanel
                               /\ LowNibble(st) = piano_chanel )
                   /\ (g_last'.kind = "program")
                         <=> HighNibble(st) = MIDI_EVENT_PROGRAM_CHANGE
                   /\ g_last'.kind = "program" => g_last'.d1 = mem[dataAt + 1]
                   /\ g_last'.kind = "note" =>
                         /\ events' = Append(events, events'[Len(events')])
                         /\ events'[Len(events')].data = mem[dataAt + 1]
                         /\ events'[Len(events')].g_vel = mem[dataAt + 2]
                         /\ events'[Len(events')].g_status = st
                         /\ events'[Len(events')].g_ticks = current_time'
                   /\ g_last'.kind # "note" => events' = events
      ]_vars

\* a loop turn without a status byte has put a note in the list: its two data
\* bytes follow the delta time at once
C28_Witness ==
    /\ pc = "event"
    /\ ~g_oob
    /\ g_last.kind = "note"
    /\ IsNoteStatus(g_last.status)
    /\ HighBit(mem[g_last.pos + EncodedLen(g_last.pos) + 1]) = 0
    /\ g_last.after = g_last.pos + EncodedLen(g_last.pos) + 2
    /\ events[Len(events)].data = mem[g_last.after - 1]

-----------------------------------------------------------------------------
(* C29 *)

\* where the data of the loop turn at address p starts: after the delta time
\* and, if it is written, the status byte
DataAt(p) ==
    IF HighBit(mem[p + EncodedLen(p) + 1]) = 0
    THEN p + EncodedLen(p) ELSE p + EncodedLen(p) + 1

\* where the cursor has to be after a skipped event at address p of the given
\* kind whose declared length is len
SkippedEnd(p, kind, st, len) ==
    CASE kind = "meta"  -> DataAt(p) + 1 + EncodedLen(DataAt(p) + 1) + len
      [] kind = "sysex" -> DataAt(p) + EncodedLen(DataAt(p)) + len
      [] OTHER          -> DataAt(p) + DataBytes(st)

\* C29: a loop turn of handle_midi on a skipped event (a meta event other than
\* set-tempo, a system-exclusive event, a channel-voice event of the skipping
\* branch) appends no event, leaves the confirmed channel and the
\* confirmation flag as they were, and moves the cursor over the status, the
\* length field and exactly the declared number of data bytes.
C29_SkippedEventsFrame ==
    [][ (IsTurn /\ g_last'.kind \in {"meta", "sysex", "skip"}) =>
          /\ events' = events
          /\ piano_chanel' = piano_chanel
          /\ has_piano_chanel' = has_piano_chanel
          /\ current_time' >= current_time
          /\ position' = SkippedEnd(position, g_last'.kind, g_last'.status, g_last'.len)
      ]_vars

-----------------------------------------------------------------------------
(* C30 *)

\* C30: every file of format 1 or 2, whatever its track count, makes
\* handle_midi return STATUS_UNEXPECTED_MIDI_FORMAT.
C30_FormatOneTwoAlwaysFail ==
    (pc = "done" /\ midi_header.format \in {1, 2})
        => status = STATUS_UNEXPECTED_MIDI_FORMAT

\* C30: a file of format 1 or 2 with a track count of 1 or more makes
\* handle_midi return STATUS_UNEXPECTED_MIDI_FORMAT in the first turn of the
\* for loop, before any track is looked for; with a track count of 0 the loop
\* has no turn and handle_midi returns STATUS_SUCCESS.  No byte after the
\* header is read in either case.
C30_FormatOneTwoFailAtFirstTrack ==
    midi_header.format \in {1, 2} =>
        /\ pc \in {"track", "sort", "translate", "done"}
        /\ track = 0 /\ g_entered = {} /\ events = <<>>
        /\ ~g_oob
        /\ pc = "done" =>
             IF midi_header.ntracks = 0
             THEN status = STATUS_SUCCESS
             ELSE status = STATUS_UNEXPECTED_MIDI_FORMAT
        /\ pc \in {"sort", "translate"} => midi_header.ntracks = 0

\* handle_midi returned the format error on a format 2 file of two tracks, a
\* track chunk behind the header
C30_Witness ==
    /\ pc = "done"
    /\ midi_header.format = 2
    /\ midi_header.ntracks = 2
    /\ status = STATUS_UNEXPECTED_MIDI_FORMAT
    /\ Len(mem) > position

-----------------------------------------------------------------------------
(* C31 *)

\* a turn of the playback loop
IsPlay == event_it' = event_it + 1

\* the tempo in force for event i + 1 of the list: the tempo of the last
\* set-tempo event among the first i, 500000 if there is none
RECURSIVE TempoBefore(_)
TempoBefore(i) ==
    IF i = 0 THEN InitialTempo
    ELSE IF events[i].event = EVENT_TEMPO_SET THEN events[i].data
    ELSE TempoBefore(i - 1)

\* C31: after a successful parse the playback loop waits before each event
\* for delta * (tempo / 500000) milliseconds, delta being the value
\* parse_midi stored in the event and tempo the value of the last set-tempo
\* event before it (500000 if none); a note-on then sets the key of its note
\* and a note-off clears it.
C31_WaitScaledMillis ==
    [][ (IsPlay /\ status = STATUS_SUCCESS) =>
          \E e \in {events[event_it + 1]} :
             /\ Lowest(sleep_time'.num, sleep_time'.den)
                  = Lowest(e.time.num * TempoBefore(event_it), e.time.den * 500)
             /\ IsNote(e) => gKeys'[e.data] = (IF e.event = EVENT_NOTE_ON THEN 1 ELSE 0)
      ]_vars

\* C31: after a successful parse the playback loop waits before each event
\* for delta * tempo microseconds, delta being the value parse_midi stored in
\* the event (quarter notes) and tempo the value of the last set-tempo event
\* before it in the list (500000 if none); then a note-on of a note below 128
\* sets the key of its note to 1 and a note-off sets it to 0, every other key
\* staying as it was; a note of 128 or more and a set-tempo change no key; a
\* set-tempo makes its value the tempo of the turns after it.
C31_WaitTempoTimesDelta ==
    [][ (IsPlay /\ status = STATUS_SUCCESS) =>
          \E e \in {events[event_it + 1]} :
             /\ main_tempo = TempoBefore(event_it)
             /\ sleep_time'.den = e.time.den
             /\ sleep_time'.num = e.time.num * TempoBefore(event_it)
             /\ main_tempo' = TempoBefore(event_it + 1)
             /\ \A k \in 0..127 :
                   gKeys'[k] = IF IsNote(e) /\ k = e.data
                               THEN (IF e.event = EVENT_NOTE_ON THEN 1 ELSE 0)
                               ELSE gKeys[k]
      ]_vars

\* the loop has waited for a note-off that comes 96 ticks after a set-tempo
\* of 250000 at 96 pulses per quarter note: 250000 microseconds, and the key
\* is off again
C31_Witness ==
    /\ pc = "play"
    /\ status = STATUS_SUCCESS
    /\ event_it = 3
    /\ events[2].event = EVENT_TEMPO_SET /\ events[2].data = 250000
    /\ events[3].event = EVENT_NOTE_OFF
    /\ main_tempo = 250000
    /\ sleep_time = [num |-> 250000 * 96, den |-> 96]
    /\ gKeys[60] = 0

-----------------------------------------------------------------------------
(* C32 *)

\* the flag and the channel agree: a channel 0..15 with the flag, 0xff without
ChanelAgrees(pch, has) ==
    IF has THEN pch \in 0..15 ELSE pch = NoChanel

\* the step stays in one scope: it is not the entry of a track of a format 2
\* file, where the switch resets the channel
StaysInScope == ~(pc = "track" /\ pc' = "event" /\ midi_header.format = 2)

\* C32: in every state of parse_midi the flag has_piano_chanel set means
\* piano_chanel is in 0..15 and the flag clear means piano_chanel is 0xff; in
\* formats 0 and 1 no step clears the flag; and no step inside a scope makes
\* piano_chanel greater.
C32_ChanelAndFlag ==
    [][ /\ ChanelAgrees(piano_chanel, has_piano_chanel)
        /\ ChanelAgrees(piano_chanel', has_piano_chanel')
        /\ (midi_header'.format \in {0, 1} /\ has_piano_chanel) => has_piano_chanel'
        /\ StaysInScope => piano_chanel' <= piano_chanel
        /\ ~StaysInScope => (piano_chanel' = NoChanel /\ ~has_piano_chanel')
      ]_vars

\* a program change has lowered the confirmed channel from 1 to 0
C32_Witness ==
    /\ pc = "event"
    /\ g_last.kind = "program"
    /\ g_last.has /\ g_last.pch = 1
    /\ has_piano_chanel /\ piano_chanel = 0

-----------------------------------------------------------------------------
(* C33 *)

\* the set-tempo events of a list
TempoCount(evs) == Cardinality({i \in DOMAIN evs : evs[i].event = EVENT_TEMPO_SET})

\* the status the loop turn at the cursor acts on, from the bytes
RawStatus ==
    IF HighBit(mem[position + EncodedLen(position) + 1]) = 0
    THEN last_track_event
    ELSE mem[position + EncodedLen(position) + 1]

\* the loop turn at the cursor is on a set-tempo meta event: status 0xff,
\* type 0x51
RawSetTempo == RawStatus = kMetaEventPrefix /\ mem[DataAt(position) + 1] = META_EVENT_TEMPO

\* the three bytes after the length field of the meta event at the cursor
RawTempo ==
    BEValue(Reader(DataAt(position) + 1 + EncodedLen(DataAt(position) + 1)), 3, 0)

\* C33: a loop turn on a set-tempo meta event appends exactly one TempoChange
\* event, with the tempo of the meta event and the tick counter after the
\* turn's delta time, whether the flag has_piano_chanel is set or not; no
\* other step changes the number of TempoChange events in the list.  So the
\* list of a successful parse holds one TempoChange per set-tempo decoded.
C33_TempoPerSetTempo ==
    [][ /\ (IsTurn /\ ~g_oob') => (g_last'.kind = "tempo" <=> RawSetTempo)
        /\ (IsTurn /\ ~g_oob' /\ RawSetTempo) =>
              /\ Len(events') = Len(events) + 1
              /\ SubSeq(events', 1, Len(events)) = events
              /\ events'[Len(events')].event = EVENT_TEMPO_SET
              /\ events'[Len(events')].data = RawTempo
              /\ events'[Len(events')].time = current_time'
              /\ piano_chanel' = piano_chanel
              /\ has_piano_chanel' = has_piano_chanel
        /\ TempoCount(events') = TempoCount(events)
              + (IF IsTurn /\ g_last'.kind = "tempo" THEN 1 ELSE 0)
      ]_vars

\* a format 0 parse that never confirmed a channel has succeeded, and the
\* set-tempo it decoded at tick 10 is the one event of its list
C33_Witness ==
    /\ SucceededInBuffer
    /\ midi_header.format = 0
    /\ ~has_piano_chanel
    /\ Len(events) = 1
    /\ events[1].event = EVENT_TEMPO_SET
    /\ events[1].data = 500000
    /\ events[1].g_ticks = 10

-----------------------------------------------------------------------------
(* C34 *)

\* the byte after the delta time at the cursor has its high bit clear
NoStatusByte == HighBit(mem[position + EncodedLen(position) + 1]) = 0

\* C34: the entry of a track sets last_track_event to 0, and a first loop
\* turn of a track whose status candidate has the high bit clear acts on
\* status 0: parse_midi returns STATUS_MIDI_EVENT_ERROR and appends nothing.
C34_RunningStatusPerTrack ==
    [][ /\ (pc = "track" /\ pc' = "event") => last_track_event' = 0
        /\ (IsTurn /\ g_nev = 0 /\ ~g_oob' /\ NoStatusByte) =>
              /\ g_last'.status = 0
              /\ pc' = "done"
              /\ status' = STATUS_MIDI_EVENT_ERROR
              /\ events' = events
      ]_vars

\* the second track of a file starts with two data bytes and no status, the
\* first track having ended on a note-on: the parse has ended in the event
\* error on status 0
C34_Witness ==
    /\ pc = "done"
    /\ status = STATUS_MIDI_EVENT_ERROR
    /\ g_entered = {0, 1}
    /\ track = 1
    /\ g_nev = 1
    /\ g_last.status = 0
    /\ AtBytes(22, EvNoteOn0)
    /\ AtBytes(g_last.pos, EvRunning)

-----------------------------------------------------------------------------
(* C35 *)

\* event e without its time field
Untimed(e) == [event |-> e.event, data |-> e.data]

\* C35: the step of translate_time leaves the list with the same number of
\* events in the same order, each with the kind and the payload it had in
\* the sorted list, and with a delta (a fraction) where the tick was; and
\* parse_midi then returns STATUS_SUCCESS.
C35_TranslateKeepsEvents ==
    [][ (pc = "translate") =>
          /\ pc' = "done"
          /\ status' = STATUS_SUCCESS
          /\ Len(events') = Len(events)
          /\ \A i \in DOMAIN events :
                /\ Untimed(events'[i]) = Untimed(events[i])
                /\ events'[i].g_seq = events[i].g_seq
                /\ events[i].time = events[i].g_ticks
                /\ events'[i].time = DeltaTime(DeltaTicks(i), midi_header)
      ]_vars

\* a list of a note-on, a set-tempo of 250000 and a note-off of note 60 has
\* been translated: the three are there in that order, with their deltas
C35_Witness ==
    /\ Succeeded
    /\ Len(events) = 3
    /\ Untimed(events[1]) = [event |-> EVENT_NOTE_ON, data |-> 60]
    /\ Untimed(events[2]) = [event |-> EVENT_TEMPO_SET, data |-> 250000]
    /\ Untimed(events[3]) = [event |-> EVENT_NOTE_OFF, data |-> 60]
    /\ events[2].time = [num |-> 48, den |-> 96]
    /\ events[3].time = [num |-> 96, den |-> 96]

====
